---------------------------- MODULE Spec2Model ----------------------------
(***************************************************************************)
(* A model of the vstream real-time audio pipeline:                        *)
(*   - audio_processor   (src/src/audio_processor.cpp)                     *)
(*   - webrtc_vad and vad_with_hangover (src/src/vad.cpp)                  *)
(*   - mic_capture       (src/src/mic_capture.cpp)                         *)
(*   - vstream_engine    (src/src/vstream_engine.cpp)                      *)
(*   - vstream_app       (src/src/vstream_app.cpp)                         *)
(*   - benchmark_manager (src/src/benchmark_manager.cpp)                   *)
(* Each component has its own specifications (SpecAP, SpecAPNoted,         *)
(* SpecVAD, SpecMic, SpecMicSession, SpecEng, SpecEngShared, SpecApp,      *)
(* SpecBench, SpecBenchTimed, SpecWer);                                    *)
(* the variables of the components a specification does not exercise stay  *)
(* at their constructed value.                                             *)
(*                                                                         *)
(* Time is std::chrono::steady_clock in milliseconds; the model advances   *)
(* it in steps of TickMs.                                                  *)
(***************************************************************************)
EXTENDS Integers, Sequences, FiniteSets, TLC

VARIABLES
    clock,      \* steady_clock::now(), in ms
    ap,         \* the audio_processor object (its members)
    ap_call,    \* observation of the latest audio_processor call
    ap_hist,    \* history of the chunks seen by the audio_processor
    m_server,   \* hyni_websocket_server: the latest queue_transcription texts
    hangover_vad, \* the vad_with_hangover object, with its webrtc_vad m_vad
    vad_call,   \* observation of the latest VAD call
    vad_hist,   \* history of the VAD since construction or reset()
    mic,        \* the mic_capture object
    mic_call,   \* observation of the latest mic_capture call
    mic_hist,   \* what the hardware produced and the consumers received
    engine,     \* the vstream_engine object and process_audio's statics
    eng_thr,    \* the threads calling the engine: position, call, result
    eng_hist,   \* what was submitted to the engine and reported by it
    app,        \* the vstream_app object and the position of run()
    app_call,   \* observation of the latest handler call of vstream_app
    app_hist,   \* stop requests and the payloads seen per session
    benchmark,  \* the benchmark_manager object
    bench_thr,  \* the threads inside add_transcription or add_vad_decision
    bench_call, \* observation of the latest benchmark_manager call
    bench_hist, \* the segments as inserted and the object as stop() left it
    wer_call    \* a call of the static calculate_wer: arguments and result

ApVars == <<ap, ap_call, ap_hist, m_server>>
VadVars == <<hangover_vad, vad_call, vad_hist>>
MicVars == <<mic, mic_call, mic_hist>>
EngVars == <<engine, eng_thr, eng_hist>>
AppVars == <<app, app_call, app_hist>>
BenchVars == <<benchmark, bench_thr, bench_call, bench_hist, wer_call>>

vars == <<clock, ApVars, VadVars, MicVars, EngVars, AppVars, BenchVars>>

-----------------------------------------------------------------------------
(* Bounds of the model and program constants                               *)

\* update_debug_status logs once per 1000 ms (audio_processor.cpp:175)
DebugIntervalMs == 1000

\* granularity of the modelled clock
TickMs == DebugIntervalMs \div 2

\* the clock runs from 0 to MaxTicks * TickMs
MaxTicks == 2

\* cap of m_accumulated_audio_samples (it grows without limit in the code)
MaxAccumulated == 1

\* how many queue_transcription calls m_server remembers
ServerWindow == 3

\* how many queue_transcription calls m_server remembers when the calls
\* are observed in detail
NotedWindow == 1

\* cap of the count of silence chunks kept in ap_hist
MaxSilenceRun == 3

\* calls of vad_with_hangover::process explored between two reset()
MaxVadCalls == 4

\* samples handed to the VAD between two reset()
MaxVadSamples == 480

\* hardware callbacks explored
MaxMicCallbacks == 4

Min(a, b) == IF a < b THEN a ELSE b
Max(a, b) == IF a > b THEN a ELSE b

\* what a call can spend inside the engine
Delays == {0, TickMs}

\* the lengths of the chunks handed to audio_processor::process_audio
ChunkLens == {0, 1}

-----------------------------------------------------------------------------
(* JSON values returned by vstream_engine::process_audio, as far as the    *)
(* audio_processor inspects them: whether the text parses, and its "text"  *)
(* and "partial" members.                                                  *)

\* the final texts and the partial texts the engine can report
Texts == {"a", "b"}
PartialTexts == {"a"}

Absent == [k |-> "absent", s |-> ""]
Null   == [k |-> "null",   s |-> ""]
Number == [k |-> "number", s |-> ""]
Str(x) == [k |-> "string", s |-> x]

\* the shapes a "text" member can have
TextFields == {Absent, Null, Number, Str("")} \cup {Str(t) : t \in Texts}

\* not valid JSON (json::parse throws)
Malformed == [ok |-> FALSE, text |-> Absent, partial |-> Absent]

\* the JSON object with these two members
Json(text, partial) == [ok |-> TRUE, text |-> text, partial |-> partial]

\* the results of engine.process_audio(audio) explored: "partial" is looked at
\* only when "text" is absent or null
EngineResults ==
    {Malformed, Json(Str("a"), Str("a")), Json(Null, Str("a"))}
    \cup {Json(f, Absent) : f \in TextFields \ {Null}}
    \cup {Json(Absent, g) : g \in {Number} \cup {Str(t) : t \in PartialTexts}}

\* the results of engine.process_audio({}, true) explored: what
\* vosk_recognizer_final_result returns has a string "text", possibly empty;
\* a result that does not parse stands for the other results without a text
FlushResults ==
    {Malformed, Json(Str(""), Absent)} \cup {Json(Str(t), Absent) : t \in Texts}

\* FlushResultsAfter for a recognizer that keeps a text across reset()
FlushResultsAfter_Any(used_since_reset) == FlushResults

\* the flush results of a recognizer: one that force_finalize has just
\* reset, with no call on the engine since, has no text to report
FlushResultsAfter(used_since_reset) ==
    IF used_since_reset THEN FlushResults
    ELSE {Malformed, Json(Str(""), Absent)}

\* what vstream_engine::process_audio returns for an empty chunk: "{}"
EmptyJson == Json(Absent, Absent)

\* result.contains(key) && !result[key].is_null()
HasNonNull(field) == field.k \notin {"absent", "null"}

\* a result the audio_processor cannot decode: json::parse throws, or
\* get<std::string>() throws on the member it reads
Undecodable(r) ==
    \/ ~r.ok
    \/ r.text.k = "number"
    \/ (~HasNonNull(r.text) /\ r.partial.k = "number")

\* the texts a result carries in its "text" member
TextOf(r) == IF r.ok /\ r.text.k = "string" THEN {r.text.s} ELSE {}

-----------------------------------------------------------------------------
(* audio_processor                                                         *)

\* what one call did to its collaborators (engine, server, benchmark, VAD)
NoEffects ==
    [sent      |-> <<>>,  \* texts passed to m_server->queue_transcription
     feeds     |-> 0,     \* m_engine->process_audio(audio)
     flushes   |-> 0,     \* m_engine->process_audio({}, true)
     resets    |-> 0,     \* m_engine->reset()
     segments  |-> 0,     \* m_benchmark->add_transcription
     partials  |-> <<>>,  \* partial texts printed
     vad_calls |-> 0,     \* m_vad->process
     finalizes |-> 0]     \* force_finalize()

\* audio_processor::handle_final_result, running at time t
handle_final_result(s, text, t) ==
    [ap |-> [s.ap EXCEPT
                !.m_last_final_text = text,
                !.m_accumulated_audio_samples =
                    IF s.ap.m_benchmark THEN 0 ELSE @,
                !.m_last_finalize_time = t],
     fx |-> [s.fx EXCEPT
                !.sent = Append(@, text),
                !.segments = IF s.ap.m_benchmark THEN @ + 1 ELSE @]]

\* handle_partial_result that also broadcasts the partial
handle_partial_result_Broadcast(s, partial) ==
    [ap |-> [s.ap EXCEPT !.m_last_partial_text = partial],
     fx |-> [s.fx EXCEPT !.partials = Append(@, partial),
                         !.sent = Append(@, partial)]]

\* audio_processor::handle_partial_result
handle_partial_result(s, partial) ==
    [ap |-> [s.ap EXCEPT !.m_last_partial_text = partial],
     fx |-> [s.fx EXCEPT !.partials = Append(@, partial)]]

\* FinalBranch without the comparison with m_last_final_text
FinalBranch_NoDedup(s, r, t) ==
    IF r.text.k # "string" THEN s
    ELSE IF r.text.s # ""
         THEN handle_final_result(s, r.text.s, t)
         ELSE s

\* the "text" branch shared by handle_speech_result and force_finalize;
\* get<std::string>() on a non-string throws and the catch swallows it
FinalBranch(s, r, t) ==
    IF r.text.k # "string" THEN s
    ELSE IF r.text.s # "" /\ r.text.s # s.ap.m_last_final_text
         THEN handle_final_result(s, r.text.s, t)
         ELSE s

\* handle_speech_result that turns to the "partial" member whenever the
\* "text" member gives no new final
handle_speech_result_Fallthrough(s, r, t) ==
    IF ~r.ok THEN s
    ELSE IF HasNonNull(r.text) /\ FinalBranch(s, r, t) # s
         THEN FinalBranch(s, r, t)
    ELSE IF r.text.k = "number" THEN s
    ELSE IF s.ap.m_show_partial /\ HasNonNull(r.partial)
         THEN IF r.partial.k # "string" THEN s
              ELSE IF r.partial.s # "" /\ r.partial.s # s.ap.m_last_partial_text
                   THEN handle_partial_result(s, r.partial.s)
                   ELSE s
    ELSE s

\* handle_speech_result that takes a non-string "partial" for the empty
\* string instead of throwing
handle_speech_result_Coerce(s, r, t) ==
    IF ~r.ok THEN s
    ELSE IF HasNonNull(r.text) THEN FinalBranch(s, r, t)
    ELSE IF s.ap.m_show_partial /\ HasNonNull(r.partial)
         THEN IF r.partial.k # "string" THEN handle_partial_result(s, "")
              ELSE IF r.partial.s # "" /\ r.partial.s # s.ap.m_last_partial_text
                   THEN handle_partial_result(s, r.partial.s)
                   ELSE s
    ELSE s

\* audio_processor::handle_speech_result, running at time t
handle_speech_result(s, r, t) ==
    IF ~r.ok THEN s
    ELSE IF HasNonNull(r.text) THEN FinalBranch(s, r, t)
    ELSE IF s.ap.m_show_partial /\ HasNonNull(r.partial)
         THEN IF r.partial.k # "string" THEN s
              ELSE IF r.partial.s # "" /\ r.partial.s # s.ap.m_last_partial_text
                   THEN handle_partial_result(s, r.partial.s)
                   ELSE s
    ELSE s

\* audio_processor::force_finalize: the flush returns r at time t and the
\* function ends at time t as well
force_finalize(s, r, t) ==
    LET flushed == [s EXCEPT !.fx.flushes = @ + 1, !.fx.finalizes = @ + 1]
        parsed  == IF r.ok /\ HasNonNull(r.text)
                   THEN FinalBranch(flushed, r, t)
                   ELSE flushed
    IN  [ap |-> [parsed.ap EXCEPT
                    !.m_was_speaking = FALSE,
                    !.m_silence_frames = 0,
                    !.m_last_partial_text = "",
                    !.m_last_finalize_time = t],
         fx |-> [parsed.fx EXCEPT !.resets = @ + 1]]

\* audio_processor::update_debug_status, at time now
update_debug_status(s, now) ==
    IF now - s.ap.m_last_debug_time >= DebugIntervalMs
    THEN [ap |-> [s.ap EXCEPT !.m_last_debug_time = now],
          fx |-> [s.fx EXCEPT !.vad_calls = @ + 1]]
    ELSE s

\* process_audio up to and including the dispatch of the engine's result:
\* the VAD answered vad, the engine returned r1 at time t1
FeedStage(a, len, vad, r1, now, t1) ==
    LET s0 == [ap |-> a,
               fx |-> [NoEffects EXCEPT
                          !.vad_calls = IF a.m_use_vad THEN 1 ELSE 0]]
        s1 == IF a.m_use_vad THEN update_debug_status(s0, now) ELSE s0
        s2 == [s1 EXCEPT !.ap.m_accumulated_audio_samples = @ + len]
        is_speech == IF a.m_use_vad THEN vad ELSE TRUE
    IN  IF is_speech
        THEN handle_speech_result(
                 [s2 EXCEPT !.ap.m_was_speaking = TRUE,
                            !.ap.m_silence_frames = 0,
                            !.fx.feeds = @ + 1],
                 r1, t1)
        ELSE IF s2.ap.m_was_speaking
             THEN [s2 EXCEPT !.ap.m_silence_frames = @ + 1]
             ELSE s2

\* PeriodicDue with > in place of >=
PeriodicDue_Strict(a, now) ==
    now - a.m_last_finalize_time > a.m_finalize_interval_ms

\* the speech branch's test: elapsed >= m_finalize_interval_ms, where now
\* was read when process_audio began
PeriodicDue(a, now) ==
    now - a.m_last_finalize_time >= a.m_finalize_interval_ms

\* SilenceDue with > in place of >=
SilenceDue_Strict(a) ==
    a.m_was_speaking /\ a.m_silence_frames > a.m_silence_frames_threshold

\* the silence branch's test, inside if (m_was_speaking)
SilenceDue(a) ==
    a.m_was_speaking /\ a.m_silence_frames >= a.m_silence_frames_threshold

\* whether process_audio goes on to force_finalize after FeedStage
NeedsFinalize(a, s, vad, now) ==
    IF (IF a.m_use_vad THEN vad ELSE TRUE)
    THEN PeriodicDue(s.ap, now)
    ELSE SilenceDue(s.ap)

\* the rest of process_audio after FeedStage left s: the finalization tests
\* and force_finalize, whose flush returns r2 at time t3
FinalizeStage(a, s, vad, r2, now, t3) ==
    LET is_speech == IF a.m_use_vad THEN vad ELSE TRUE
    IN  IF ~NeedsFinalize(a, s, vad, now) THEN s
        ELSE IF is_speech
             THEN [force_finalize(s, r2, t3) EXCEPT
                      !.ap.m_last_finalize_time = now]
             ELSE force_finalize(s, r2, t3)

\* audio_processor::process_audio as a whole
process_audio(a, len, vad, r1, r2, now, t1, t3) ==
    FinalizeStage(a, FeedStage(a, len, vad, r1, now, t1), vad, r2, now, t3)

\* the state after audio_processor's constructor, at time 0
ApConstructed(use_vad, threshold, interval, partial, bench) ==
    [m_use_vad                   |-> use_vad,
     m_silence_frames_threshold  |-> threshold,
     m_finalize_interval_ms      |-> interval,
     m_show_partial              |-> partial,
     m_benchmark                 |-> bench,
     m_last_finalize_time        |-> 0,
     m_last_debug_time           |-> 0,
     m_was_speaking              |-> FALSE,
     m_silence_frames            |-> 0,
     m_last_final_text           |-> "",
     m_last_partial_text         |-> "",
     m_accumulated_audio_samples |-> 0]

\* the configurations explored: without VAD (the threshold is not read),
\* once with partial display and a benchmark attached and once with neither;
\* with VAD, at threshold 0 with neither and at threshold 2 with both; the
\* interval is one tick
ApConfigs ==
    {ApConstructed(FALSE, 0, TickMs, full, full) : full \in BOOLEAN}
    \cup {ApConstructed(TRUE, 0, TickMs, FALSE, FALSE),
          ApConstructed(TRUE, 2, TickMs, TRUE, TRUE)}

\* a result that carries a non-empty "partial" and no "text"
PartialOnly(r) ==
    r.ok /\ r.text = Absent /\ r.partial.k = "string" /\ r.partial.s # ""

\* a flush result that carries a non-empty text other than last_final
FreshText(r, last_final) ==
    r.ok /\ r.text.k = "string" /\ r.text.s # "" /\ r.text.s # last_final

\* what is kept of a call: how the chunk was taken, the kind of the engine's
\* result, what the periodic test saw, whether the flush returned a fresh
\* text, and the call's effects
Observed(op, is_speech, r1, elapsed, fresh, fx, more) ==
    [op           |-> op,
     again        |-> more.again,      \* force_finalize after force_finalize
     \* the chunk was empty (and the engine, if the chunk reached it,
     \* answered "{}" as it does then); if so, whether the speech and text
     \* state is as before the call
     empty_chunk  |-> more.empty_chunk,
     kept         |-> more.empty_chunk => more.kept,
     bad_feed     |-> more.bad_feed,   \* the chunk's result was undecodable
     bad_flush    |-> more.bad_flush,  \* the flush's result was undecodable
     \* for an undecodable or partial-only result of the chunk: what was
     \* broadcast for it, and whether it left both texts alone
     feed_sent    |-> IF more.bad_feed \/ more.bad_flush \/ PartialOnly(r1)
                      THEN more.feed_sent ELSE 0,
     feed_kept    |-> more.bad_feed => more.feed_kept,
     \* for an undecodable result of the flush: whether it left both texts,
     \* and m_last_final_text, alone
     flush_kept   |-> more.bad_flush => more.flush_kept,
     final_kept   |-> more.bad_flush => more.final_kept,
     from_text    |-> more.from_text,  \* every broadcast is a "text" member
     \* whether the chunk's result called for a partial to be shown, and
     \* whether its dispatch showed and remembered that partial
     partial_case  |-> more.partial_case,
     partial_taken |-> more.partial_taken,
     vad_calls    |-> more.vad_calls,  \* calls of m_vad->process
     \* for a partial-only result: benchmark segments and partials shown
     segments     |-> IF PartialOnly(r1) THEN fx.segments ELSE 0,
     shown        |-> IF PartialOnly(r1) THEN Len(fx.partials) ELSE 0,
     is_speech    |-> is_speech,
     partial_only |-> PartialOnly(r1),
     elapsed      |-> elapsed,   \* whether the interval had elapsed
     fresh        |-> fx.flushes > 0 /\ fresh,
     sent         |-> Len(fx.sent),
     flushes      |-> fx.flushes,
     resets       |-> fx.resets,
     finalizes    |-> fx.finalizes]

\* the observations of a call that has nothing to report for them
NoMore ==
    [again |-> FALSE, empty_chunk |-> FALSE, kept |-> TRUE, bad_feed |-> FALSE,
     bad_flush |-> FALSE, feed_sent |-> 0, feed_kept |-> TRUE,
     flush_kept |-> TRUE, final_kept |-> TRUE, from_text |-> TRUE,
     partial_case |-> "none", partial_taken |-> FALSE, vad_calls |-> 0]

\* how the result r of a speech chunk stands to the partial display of a:
\* "none" unless partial display is on, r has a non-empty "partial" other
\* than m_last_partial_text and its "text" is absent, null, empty or
\* m_last_final_text; then "bare" when r has no non-null "text" and
\* "shadowed" when it has one
PartialCase(a, is_speech, r) ==
    IF /\ is_speech /\ a.m_show_partial /\ r.ok
       /\ r.partial.k = "string" /\ r.partial.s # ""
       /\ r.partial.s # a.m_last_partial_text
       /\ r.text.k # "number"
       /\ ~(r.text.k = "string" /\ r.text.s # ""
            /\ r.text.s # a.m_last_final_text)
    THEN IF HasNonNull(r.text) THEN "shadowed" ELSE "bare"
    ELSE "none"

\* was_speaking, silence_frames, both texts and last_finalize_at agree
SameSpeechState(a, b) ==
    /\ a.m_was_speaking = b.m_was_speaking
    /\ a.m_silence_frames = b.m_silence_frames
    /\ a.m_last_final_text = b.m_last_final_text
    /\ a.m_last_partial_text = b.m_last_partial_text
    /\ a.m_last_finalize_time = b.m_last_finalize_time

\* m_last_final_text and m_last_partial_text agree
SameTexts(a, b) ==
    /\ a.m_last_final_text = b.m_last_final_text
    /\ a.m_last_partial_text = b.m_last_partial_text

\* the observations of a call that found the object as a, left it as fed
\* after the dispatch of the chunk's result and as out at its end; texts
\* are the "text" members of the engine's results in the call
Noted(a, fed, out, again, empty_chunk, bad_feed, bad_flush, texts, partial_case, partial) ==
    [again |-> again, empty_chunk |-> empty_chunk,
     partial_case |-> partial_case,
     partial_taken |-> /\ partial_case # "none"
                       /\ fed.fx.partials = <<partial>>
                       /\ fed.ap.m_last_partial_text = partial,
     vad_calls |-> out.fx.vad_calls,
     kept |-> SameSpeechState(out.ap, a),
     bad_feed |-> bad_feed, bad_flush |-> bad_flush,
     feed_sent |-> Len(fed.fx.sent),
     feed_kept |-> SameTexts(fed.ap, a),
     flush_kept |-> SameTexts(out.ap, fed.ap),
     final_kept |-> out.ap.m_last_final_text = fed.ap.m_last_final_text,
     from_text |-> \A i \in 1..Len(out.fx.sent) : out.fx.sent[i] \in texts]

NoCall == Observed("none", FALSE, Malformed, FALSE, FALSE, NoEffects, NoMore)

NoHistory ==
    [seen_speech      |-> FALSE,  \* a chunk was treated as speech
     silence_run      |-> 0,      \* silence chunks since the last speech chunk
     finalized_since  |-> FALSE,  \* force_finalize ran since that chunk was fed
     finalized_before |-> FALSE]  \* finalized_since, before the latest chunk

\* the last ServerWindow texts of log followed by sent
Remember(log, sent) ==
    LET all == log \o sent
    IN  IF Len(all) <= ServerWindow THEN all
        ELSE SubSeq(all, Len(all) - ServerWindow + 1, Len(all))

\* the same with a window of NotedWindow texts
RememberNoted(log, sent) ==
    LET all == log \o sent
    IN  IF Len(all) <= NotedWindow THEN all
        ELSE SubSeq(all, Len(all) - NotedWindow + 1, Len(all))

ApIdle ==
    /\ ap = ApConstructed(FALSE, 0, 0, FALSE, FALSE)
    /\ ap_call = NoCall
    /\ ap_hist = NoHistory
    /\ m_server = <<>>

-----------------------------------------------------------------------------
(* webrtc_vad and vad_with_hangover (src/src/vad.cpp).  A sample is        *)
(* modelled by its position in the stream submitted since construction or  *)
(* the last reset(); what fvad_process answers for a frame is an input.    *)

\* fvad_process: 1 for speech, 0 for non-speech, negative on error
FvadResults == {1, 0, -1}

\* webrtc_vad::webrtc_vad(cfg), for a configuration validate_config accepts
WebrtcVadConstructed(sample_rate, frame_duration_ms) ==
    [sample_rate       |-> sample_rate,
     frame_duration_ms |-> frame_duration_ms,
     m_frame_size      |-> (sample_rate * frame_duration_ms) \div 1000,
     m_buffer          |-> <<>>,
     m_last_vad_result |-> FALSE]

\* webrtc_vad::process_frame, given what fvad_process answers
process_frame(v, num_samples, result) ==
    IF num_samples # v.m_frame_size THEN FALSE
    ELSE IF result < 0 THEN FALSE
    ELSE result = 1

\* HasCompleteFrame with > in place of >=
HasCompleteFrame_Strict(v, buffer) == Len(buffer) > v.m_frame_size

\* the condition of the while loop of webrtc_vad::process
HasCompleteFrame(v, buffer) == Len(buffer) >= v.m_frame_size

\* the while loop of webrtc_vad::process: classify the frame at the front of
\* the buffer and erase it, while a complete frame is buffered
RECURSIVE ProcessFrames(_, _, _, _)
ProcessFrames(v, buffer, results, done) ==
    IF HasCompleteFrame(v, buffer)
    THEN LET frame     == SubSeq(buffer, 1, v.m_frame_size)
             is_speech == process_frame(v, Len(frame), Head(results))
         IN ProcessFrames(v,
                SubSeq(buffer, v.m_frame_size + 1, Len(buffer)),
                Tail(results),
                [any_speech_detected |-> done.any_speech_detected \/ is_speech,
                 frames              |-> Append(done.frames, frame)])
    ELSE [buffer              |-> buffer,
          any_speech_detected |-> done.any_speech_detected,
          frames              |-> done.frames]

\* webrtc_vad::process(audio): the object after the call, the value returned
\* and the frames the call classified
webrtc_vad_process(v, audio, results) ==
    LET loop == ProcessFrames(v, v.m_buffer \o audio, results,
                    [any_speech_detected |-> FALSE, frames |-> <<>>])
        last == IF loop.any_speech_detected THEN TRUE ELSE v.m_last_vad_result
    IN [v   |-> [v EXCEPT !.m_buffer = loop.buffer,
                          !.m_last_vad_result = last],
        ret |-> last,
        any_speech_detected |-> loop.any_speech_detected,
        frames |-> loop.frames]

\* webrtc_vad::reset
webrtc_vad_reset(v) ==
    [v EXCEPT !.m_buffer = <<>>, !.m_last_vad_result = FALSE]

\* how many frames a call completes
CompleteFrames(v, len) == (Len(v.m_buffer) + len) \div v.m_frame_size

\* vad_with_hangover::reset
vad_with_hangover_reset(h) ==
    [h EXCEPT !.m_vad = webrtc_vad_reset(@),
              !.m_is_speaking = FALSE,
              !.m_speech_frame_count = 0,
              !.m_silence_frame_count = 0]

\* vad_with_hangover::vad_with_hangover(cfg); the time points are
\* value-initialised
VadConstructed(core, hangover_ms, startup_ms) ==
    vad_with_hangover_reset(
        [hangover_ms           |-> hangover_ms,
         startup_ms            |-> startup_ms,
         m_vad                 |-> core,
         m_is_speaking         |-> FALSE,
         m_speech_frame_count  |-> 0,
         m_silence_frame_count |-> 0,
         m_last_speech         |-> 0,
         m_speech_start        |-> 0,
         m_speech_end          |-> 0])

\* startup_frames of vad_with_hangover::process
startup_frames(h) == h.startup_ms \div h.m_vad.frame_duration_ms

\* StartupReached one result early
StartupReached_Early(h) == h.m_speech_frame_count + 1 >= startup_frames(h)

\* the test that starts speech, after m_speech_frame_count++
StartupReached(h) == h.m_speech_frame_count >= startup_frames(h)

\* the branch of vad_with_hangover::process for a speech result
SpeechResult(h, now) ==
    LET counted == [h EXCEPT !.m_speech_frame_count = @ + 1,
                             !.m_silence_frame_count = 0,
                             !.m_last_speech = now]
    IN IF ~counted.m_is_speaking /\ StartupReached(counted)
       THEN [counted EXCEPT !.m_is_speaking = TRUE, !.m_speech_start = now]
       ELSE counted

\* the branch of vad_with_hangover::process for a silence result
SilenceResult(h, now) ==
    LET counted == [h EXCEPT !.m_silence_frame_count = @ + 1,
                             !.m_speech_frame_count = 0]
    IN IF counted.m_is_speaking /\ now - counted.m_last_speech > counted.hangover_ms
       THEN [counted EXCEPT !.m_is_speaking = FALSE, !.m_speech_end = now]
       ELSE counted

\* vad_with_hangover::process that follows the frames of the chunk alone,
\* with neither the core's result nor the hangover
vad_with_hangover_process_Raw(h, audio, results, now) ==
    LET core == webrtc_vad_process(h.m_vad, audio, results)
        fed  == [h EXCEPT !.m_vad = core.v]
        next == IF core.ret THEN SpeechResult(fed, now)
                            ELSE SilenceResult(fed, now)
    IN [h    |-> [next EXCEPT !.m_is_speaking = core.any_speech_detected],
        core |-> core]

\* vad_with_hangover::process(audio), with now read after the core's call
vad_with_hangover_process(h, audio, results, now) ==
    LET core == webrtc_vad_process(h.m_vad, audio, results)
        fed  == [h EXCEPT !.m_vad = core.v]
    IN [h    |-> IF core.ret THEN SpeechResult(fed, now)
                             ELSE SilenceResult(fed, now),
        core |-> core]

\* the configurations of the VAD the model runs
VadSampleRates == {8000}
VadFrameDurations == {10, 20}
VadStartups == {0, 30}
VadHangovers == {0, TickMs}

VadConfigs ==
    {VadConstructed(WebrtcVadConstructed(sr, fd), hg, st) :
        sr \in VadSampleRates, fd \in VadFrameDurations,
        hg \in VadHangovers, st \in VadStartups}

\* the lengths of the chunks handed to the VAD, in samples
VadChunkLens == {0, 80, 120, 160}

\* the samples of a chunk of len samples submitted after total samples
Samples(total, len) == [i \in 1..len |-> total + i]

\* frame number k of the stream, for frames of size samples
StreamFrame(k, size) == [i \in 1..size |-> (k - 1) * size + i]

\* observation of the latest VAD call: the chunk (whether it is made of
\* whole frames only, how many frames it completes, whether fvad_process
\* answered speech for one of them), the core's previous and current return
\* values, and the hangover state the call found
VadObserved(op, now, len, before, results, ret) ==
    [op             |-> op,
     now            |-> now,
     whole_frames   |-> /\ Len(before.m_vad.m_buffer) = 0
                        /\ len > 0
                        /\ len % before.m_vad.m_frame_size = 0,
     nframes        |-> Len(results),
     any_speech     |-> \E k \in 1..Len(results) : results[k] = 1,
     prev_ret       |-> before.m_vad.m_last_vad_result,
     ret            |-> ret,
     was_speaking   |-> before.m_is_speaking,
     last_speech_at |-> before.m_last_speech]

NoVadCall ==
    [op |-> "none", now |-> 0, whole_frames |-> FALSE, nframes |-> 0,
     any_speech |-> FALSE, prev_ret |-> FALSE, ret |-> FALSE,
     was_speaking |-> FALSE, last_speech_at |-> 0]

\* what has happened since construction or the last reset(): samples
\* submitted, frames classified, whether they were the frames of the stream
\* in order, when a frame was last classified as speech (-1: never), when the
\* current run of chunks made of whole non-speech frames began (-1: no such
\* run), the run of speech results of the core, and the calls made
NoVadHistory ==
    [total |-> 0, frames |-> 0, in_order |-> TRUE, speech_frame_at |-> -1,
     quiet_since |-> -1, speech_run |-> 0, calls |-> 0]

VadIdle ==
    /\ hangover_vad = VadConstructed(WebrtcVadConstructed(16000, 20), 300, 100)
    /\ vad_call = NoVadCall
    /\ vad_hist = NoVadHistory

-----------------------------------------------------------------------------
(* vstream_engine (src/src/vstream_engine.cpp)                             *)
(* The recognizer is the Vosk library: the model keeps what the engine     *)
(* does with it (the operations it calls, in order) and draws its answers  *)
(* from the values the library can give.                                   *)

\* process_audio feeds the recognizer 1600 samples at a time
\* (vstream_engine.cpp:120)
chunk_size == 1600

\* process_audio calls explored
MaxEngineCalls == 3

\* the threads that call the engine
EngThreads == {1, 2}

\* lengths of the sample vectors handed to process_audio: empty, one
\* sub-chunk, three sub-chunks (1600 + 1600 + 800)
AudioLens == {0, chunk_size, 2 * chunk_size + chunk_size \div 2}

\* the return values of vosk_recognizer_accept_waveform_s: a complete
\* utterance, more audio wanted, an error
AcceptResults == {1, 0, -1}

\* the strings process_audio returns: the literal "{}", the empty
\* std::string, and what the recognizer gave for the sub-chunk fed last
EmptyObject == [kind |-> "{}", at |-> 0]
EmptyString == [kind |-> "", at |-> 0]
vosk_recognizer_result(k) == [kind |-> "result", at |-> k]
vosk_recognizer_partial_result(k) == [kind |-> "partial_result", at |-> k]
vosk_recognizer_final_result == [kind |-> "final_result", at |-> 0]
NoResult == [kind |-> "none", at |-> 0]
BoolResult(b) == [kind |-> IF b THEN "true" ELSE "false", at |-> 0]

\* one operation on m_recognizer; at is the sub-chunk it concerns
RecOp(op, k) == [op |-> op, at |-> k]

\* the recognizer after vosk_recognizer_reset, and after a result or final
\* result was taken: it holds no audio of an utterance
RecognizerFresh == [utterance |-> FALSE]

\* the engine after its constructor; just_got_final is the function-static
\* flag of process_audio, m_mutex is 0 when free, else the owning thread
EngineConstructed ==
    [m_total_samples |-> 0, just_got_final |-> FALSE, m_mutex |-> 0,
     m_recognizer |-> RecognizerFresh]

\* a thread that is not calling the engine, before its first call; caller
\* is the statement of audio_processor::force_finalize the call is made
\* from ("flush", "reset"), "none" for a call from elsewhere
NoEngCall ==
    [pc |-> "idle", op |-> "none", len |-> 0, is_final |-> FALSE,
     processed |-> 0, last_result |-> EmptyString, ret |-> NoResult,
     trace |-> <<>>, final_before |-> FALSE, caller |-> "none"]

\* what was submitted to process_audio and what the recognizer saw: calls
\* made, sum of the lengths submitted, whether a final was reported since
\* the last non-empty call began feeding, whether an operation on the
\* recognizer ran while another thread's call was in progress
NoEngHistory ==
    [calls |-> 0, submitted |-> 0, final_since |-> FALSE,
     overlapped |-> FALSE]

EngIdle ==
    /\ engine = EngineConstructed
    /\ eng_thr = [t \in EngThreads |-> NoEngCall]
    /\ eng_hist = NoEngHistory

\* std::lock_guard<std::mutex> lock(m_mutex) can be taken
MutexFree_Ignored(e) == TRUE
MutexFree(e) == e.m_mutex = 0

\* the index of the sub-chunk that starts at offset processed
SubChunk(processed) == processed \div chunk_size + 1

\* vosk_recognizer_reset(m_recognizer) in reset()
engine_reset_Zero(e) ==
    [e EXCEPT !.m_recognizer = RecognizerFresh, !.m_total_samples = 0]
engine_reset(e) == [e EXCEPT !.m_recognizer = RecognizerFresh]

\* the forced flush of process_audio: is_final with no audio
forced_final_KeepFlag(e, c) ==
    [e |-> [e EXCEPT !.m_recognizer = RecognizerFresh],
     c |-> [c EXCEPT !.pc = "return",
                     !.ret = vosk_recognizer_final_result,
                     !.trace = Append(@, RecOp("final_result", 0))]]
forced_final(e, c) ==
    [e |-> [e EXCEPT !.just_got_final = TRUE,
                     !.m_recognizer = RecognizerFresh],
     c |-> [c EXCEPT !.pc = "return",
                     !.ret = vosk_recognizer_final_result,
                     !.trace = Append(@, RecOp("final_result", 0))]]

\* process_audio from its first statement to the start of the feeding loop:
\* the early return, the count, the bleed-avoidance reset, the forced flush
process_audio_enter(e, c) ==
    IF c.len = 0 /\ ~c.is_final
    THEN [e |-> e, c |-> [c EXCEPT !.pc = "return", !.ret = EmptyObject]]
    ELSE LET counted == [e EXCEPT !.m_total_samples = @ + c.len] IN
         IF c.len > 0
         THEN IF counted.just_got_final
              THEN [e |-> [counted EXCEPT !.just_got_final = FALSE,
                                          !.m_recognizer = RecognizerFresh],
                    c |-> [c EXCEPT !.pc = "feed",
                                    !.trace = Append(@, RecOp("reset", 0))]]
              ELSE [e |-> counted, c |-> [c EXCEPT !.pc = "feed"]]
         ELSE forced_final(counted, c)

\* one turn of the feeding loop: the sub-chunk at offset processed is fed
\* and the recognizer answers result; the loop's exit returns last_result
process_audio_feed(e, c, result) ==
    LET k == SubChunk(c.processed)
        current_chunk == Min(chunk_size, c.len - c.processed)
        fed == Append(c.trace, RecOp("accept_waveform", k))
    IN  IF result > 0
        THEN [e |-> [e EXCEPT !.just_got_final = TRUE,
                              !.m_recognizer = RecognizerFresh],
              c |-> [c EXCEPT !.trace = Append(fed, RecOp("result", k)),
                              !.ret = vosk_recognizer_result(k),
                              !.pc = "return"]]
        ELSE LET last == IF result = 0
                         THEN vosk_recognizer_partial_result(k)
                         ELSE c.last_result
                 done == c.processed + current_chunk >= c.len
             IN  [e |-> [e EXCEPT !.m_recognizer.utterance = TRUE],
                  c |-> [c EXCEPT
                           !.trace = IF result = 0
                                     THEN Append(fed,
                                                 RecOp("partial_result", k))
                                     ELSE fed,
                           !.last_result = last,
                           !.processed = @ + current_chunk,
                           !.pc = IF done THEN "return" ELSE "feed",
                           !.ret = IF done THEN last ELSE @]]

\* the operations other than process_audio: one call on the recognizer
\* under the lock; has is the recognizer's answer to has_partial_result
EngOtherOps ==
    {"reset", "set_grammar", "set_max_alternatives", "enable_nlsml_output",
     "has_partial_result"}

recognizer_call(e, c, has) ==
    CASE c.op = "reset" ->
           [e |-> engine_reset(e),
            c |-> [c EXCEPT !.pc = "return",
                            !.trace = Append(@, RecOp("reset", 0))]]
      [] c.op = "has_partial_result" ->
           [e |-> e,
            c |-> [c EXCEPT !.pc = "return", !.ret = BoolResult(has),
                            !.trace = Append(@, RecOp("partial_result", 0))]]
      [] OTHER ->
           [e |-> e,
            c |-> [c EXCEPT !.pc = "return",
                            !.trace = Append(@, RecOp(c.op, 0))]]

-----------------------------------------------------------------------------
(* vstream_app (src/src/vstream_app.cpp): run() on the main thread, stop() *)
(* from signal handlers, clients and other threads, and the two handlers   *)
(* the WebSocket server calls for audio payloads and for commands          *)

\* the sessions audio payloads belong to
Sessions == {"s1", "s2"}

\* the command names explored; "bogus" stands for every other name
Commands ==
    {"reset", "set_grammar", "stats", "benchmark_results", "stop", "bogus"}

\* alternatives[0].confidence of an engine result: not there, a number, or
\* a value get<float>() throws on
Confidences == {"absent", "number", "string"}

\* the vstream_app object after its constructor, for a configuration; pc is
\* the position of the thread that calls run(), ret what run() returned
\* (-1: not yet)
AppConstructed(use_mic, benchmark_enabled) ==
    [use_mic |-> use_mic, benchmark_enabled |-> benchmark_enabled,
     m_running |-> FALSE, m_messages_processed |-> 0,
     pc |-> "constructed", handlers |-> FALSE, m_engine |-> FALSE,
     m_server |-> "none", m_mic |-> "none", m_benchmark |-> "none",
     ret |-> -1]

AppConfigs == {AppConstructed(m, b) : m, b \in BOOLEAN}

\* vstream_app::stop
stop(a) == [a EXCEPT !.m_running = FALSE]

\* the member handle_websocket_audio reads its text from, and the type it
\* gives the text
WsMember(r) ==
    IF HasNonNull(r.text) THEN r.text
    ELSE IF HasNonNull(r.partial) THEN r.partial
    ELSE Str("")

WsType(r) == IF HasNonNull(r.text) THEN "final" ELSE "partial"

\* json::parse or one of the get<>() calls throws
WsThrows(r, confidence) ==
    \/ ~r.ok
    \/ WsMember(r).k # "string"
    \/ confidence = "string"

\* vstream_app::handle_websocket_audio for a payload of a session whose
\* engine result is r: the object afterwards, the queue_transcription
\* calls, the add_transcription calls and the engine calls made
handle_websocket_audio(a, session, r, confidence) ==
    LET text == IF WsThrows(r, confidence) THEN "" ELSE WsMember(r).s
        sent == IF text # ""
                THEN <<[text |-> text, session |-> session,
                        type |-> WsType(r)]>>
                ELSE <<>>
    IN  [app |-> [a EXCEPT !.m_messages_processed = @ + 1],
         sent |-> sent,
         segments |-> IF text # "" /\ a.m_benchmark # "none"
                         /\ a.benchmark_enabled
                      THEN 1 ELSE 0,
         engine |-> <<"process_audio">>]

\* the engine calls of vstream_app::get_stats
get_stats(a) ==
    IF a.m_engine THEN <<"get_total_samples_processed">> ELSE <<>>

\* handle_websocket_command that passes a missing grammar on to the engine
handle_websocket_command_AnyGrammar(a, command, has_grammar) ==
    CASE command = "reset" ->
            [app |-> a, status |-> "ok", message |-> "Recognizer reset",
             engine |-> <<"reset">>]
      [] command = "set_grammar" ->
            [app |-> a, status |-> "ok", message |-> "Grammar updated",
             engine |-> <<"set_grammar">>]
      [] command = "stats" ->
            [app |-> a, status |-> "ok", message |-> "",
             engine |-> get_stats(a)]
      [] command = "benchmark_results" ->
            IF a.m_benchmark # "none" /\ a.benchmark_enabled
            THEN [app |-> a, status |-> "ok", message |-> "",
                  engine |-> <<>>]
            ELSE [app |-> a, status |-> "error",
                  message |-> "Benchmark not enabled", engine |-> <<>>]
      [] command = "stop" ->
            [app |-> stop(a), status |-> "ok", message |-> "Server stopping",
             engine |-> <<>>]
      [] OTHER ->
            [app |-> a, status |-> "error", message |-> "Unknown command",
             engine |-> <<>>]

\* vstream_app::handle_websocket_command: the object afterwards, the
\* response's status and message, and the engine calls made
handle_websocket_command(a, command, has_grammar) ==
    CASE command = "reset" ->
            [app |-> a, status |-> "ok", message |-> "Recognizer reset",
             engine |-> <<"reset">>]
      [] command = "set_grammar" ->
            IF has_grammar
            THEN [app |-> a, status |-> "ok", message |-> "Grammar updated",
                  engine |-> <<"set_grammar">>]
            ELSE [app |-> a, status |-> "error",
                  message |-> "Missing grammar parameter", engine |-> <<>>]
      [] command = "stats" ->
            [app |-> a, status |-> "ok", message |-> "",
             engine |-> get_stats(a)]
      [] command = "benchmark_results" ->
            IF a.m_benchmark # "none" /\ a.benchmark_enabled
            THEN [app |-> a, status |-> "ok", message |-> "",
                  engine |-> <<>>]
            ELSE [app |-> a, status |-> "error",
                  message |-> "Benchmark not enabled", engine |-> <<>>]
      [] command = "stop" ->
            [app |-> stop(a), status |-> "ok", message |-> "Server stopping",
             engine |-> <<>>]
      [] OTHER ->
            [app |-> a, status |-> "error", message |-> "Unknown command",
             engine |-> <<>>]

\* no payload of a session yet
NoPayload == [text |-> "", type |-> "none"]

\* observation of the latest call of a handler or of stop(): m_running
\* before and after it, the engine calls made, the response of a command,
\* what a payload's result carried, whether the previous payload of the
\* session carried the same, and the queue_transcription calls made
NoAppCall ==
    [op |-> "none", command |-> "", has_grammar |-> FALSE, status |-> "",
     message |-> "", engine |-> <<>>, was_running |-> FALSE,
     now_running |-> FALSE, carried |-> NoPayload, repeated |-> FALSE,
     sent |-> <<>>]

\* whether stop() has been called since run() was entered, and per session
\* what the previous payload's engine result carried
NoAppHistory ==
    [stop_requested |-> FALSE, last |-> [s \in Sessions |-> NoPayload]]

AppIdle ==
    /\ app = AppConstructed(FALSE, FALSE)
    /\ app_call = NoAppCall
    /\ app_hist = NoAppHistory

-----------------------------------------------------------------------------
(* benchmark_manager (src/src/benchmark_manager.cpp).  A text is the       *)
(* sequence of its characters; a segment is modelled by its text, type,    *)
(* audio_samples, vad_detected and silence_frames_before.                  *)

\* the texts handed to add_transcription
BenchTexts == {<<"a">>, <<" ", "B", " ", " ">>}

SegmentTypes == {"partial", "final"}

\* ::tolower on the characters explored
tolower(c) == IF c = "B" THEN "b" ELSE IF c = "A" THEN "a" ELSE c

isspace(c) == c = " "

\* std::unique with the predicate "both are spaces": of a run of spaces the
\* first stays
RECURSIVE unique_spaces(_)
unique_spaces(s) ==
    IF Len(s) <= 1 THEN s
    ELSE IF isspace(s[1]) /\ isspace(s[2])
         THEN unique_spaces(<<s[1]>> \o SubSeq(s, 3, Len(s)))
         ELSE <<s[1]>> \o unique_spaces(Tail(s))

\* erase(0, find_first_not_of(whitespace))
RECURSIVE trim_left(_)
trim_left(s) ==
    IF s # <<>> /\ isspace(s[1]) THEN trim_left(Tail(s)) ELSE s

\* erase(find_last_not_of(whitespace) + 1)
RECURSIVE trim_right(_)
trim_right(s) ==
    IF s # <<>> /\ isspace(s[Len(s)])
    THEN trim_right(SubSeq(s, 1, Len(s) - 1))
    ELSE s

\* benchmark_manager::normalize_text
normalize_text(text) ==
    trim_right(trim_left(unique_spaces([i \in 1..Len(text) |->
                                            tolower(text[i])])))

\* the benchmark_manager after its constructor
BenchConstructed ==
    [m_is_running |-> FALSE, m_segments |-> <<>>, m_vad_decisions |-> <<>>,
     m_total_samples |-> 0, m_start_time |-> 0]

\* benchmark_manager::start at the time now
bench_start(b, now) ==
    [b EXCEPT !.m_segments = <<>>, !.m_vad_decisions = <<>>,
              !.m_total_samples = 0, !.m_is_running = TRUE,
              !.m_start_time = now]

\* benchmark_manager::stop
bench_stop(b) == [b EXCEPT !.m_is_running = FALSE]

\* a quotient of two doubles, kept as the pair it is computed from
Quotient(num, den) == [num |-> num, den |-> den]

\* a default-constructed benchmark_results: the fields of the timing part
DefaultResults ==
    [total_samples_processed |-> 0, total_segments |-> 0,
     total_audio_duration_ms |-> 0, total_processing_time_ms |-> 0,
     real_time_factor |-> Quotient(0, 1)]

\* (m_total_samples / 16000.0) * 1000.0; the sample counts explored are
\* multiples of 16, for which the division is exact
AudioDurationMs(samples) == (samples * 1000) \div 16000

\* benchmark_manager::get_current_results at the time now: the counts and
\* the real-time factor
get_current_results(b, now) ==
    LET results == DefaultResults
        audio_ms == AudioDurationMs(b.m_total_samples)
    IN  [results EXCEPT
            !.total_samples_processed = b.m_total_samples,
            !.total_segments = Len(b.m_segments),
            !.total_audio_duration_ms = audio_ms,
            !.real_time_factor =
                IF audio_ms > 0
                THEN IF b.m_is_running
                     THEN Quotient(now - b.m_start_time, audio_ms)
                     ELSE IF results.total_processing_time_ms > 0
                          THEN Quotient(results.total_processing_time_ms,
                                        audio_ms)
                          ELSE @
                ELSE @]

\* what benchmark_manager::stop returns at the time now
stop_results(b, now) ==
    [get_current_results(bench_stop(b), now) EXCEPT
        !.total_processing_time_ms = now - b.m_start_time]

\* the segment add_transcription builds
NewSegment(text, type, audio_samples) ==
    [text |-> normalize_text(text), type |-> type,
     audio_samples |-> audio_samples, vad_detected |-> FALSE,
     silence_frames_before |-> 0]

\* add_transcription after its test of m_is_running
append_segment(b, text, type, audio_samples) ==
    [b EXCEPT !.m_segments = Append(@, NewSegment(text, type, audio_samples)),
              !.m_total_samples = @ + audio_samples]

\* add_vad_decision after its test of m_is_running
record_vad_decision(b, is_speech, silence_frames_before) ==
    LET n == Len(b.m_segments)
    IN  [b EXCEPT
            !.m_vad_decisions = Append(@, is_speech),
            !.m_segments =
                IF n = 0 THEN @
                ELSE [@ EXCEPT ![n].vad_detected = is_speech,
                               ![n].silence_frames_before =
                                   silence_frames_before]]

\* ::isalnum on the characters explored
isalnum(c) == c \notin {" ", ".", ","}

\* the words `stream >> word` reads from the rest of the text; word is
\* the run of non-space characters read so far
RECURSIVE ReadWords(_, _)
ReadWords(text, word) ==
    IF text = <<>>
    THEN IF word = <<>> THEN <<>> ELSE <<word>>
    ELSE IF isspace(text[1])
         THEN IF word = <<>>
              THEN ReadWords(Tail(text), <<>>)
              ELSE <<word>> \o ReadWords(Tail(text), <<>>)
         ELSE ReadWords(Tail(text), Append(word, text[1]))

\* a word in lower case with the characters that are not alphanumeric
\* erased
CleanWord(word) ==
    SelectSeq([i \in 1..Len(word) |-> tolower(word[i])], isalnum)

NonEmptyWord(word) == word # <<>>

\* benchmark_manager::tokenize
tokenize(text) ==
    LET read == ReadWords(text, <<>>)
    IN  SelectSeq([i \in 1..Len(read) |-> CleanWord(read[i])], NonEmptyWord)

\* std::min of three
Min3(a, b, c) == Min(a, Min(b, c))

\* the DP table of levenshtein_distance after it is filled
DpTable(ref, hyp) ==
    LET dp[i \in 0..Len(ref), j \in 0..Len(hyp)] ==
            IF j = 0 THEN i
            ELSE IF i = 0 THEN j
            ELSE IF ref[i] = hyp[j] THEN dp[i - 1, j - 1]
            ELSE 1 + Min3(dp[i - 1, j], dp[i, j - 1], dp[i - 1, j - 1])
    IN  [i \in 0..Len(ref), j \in 0..Len(hyp) |-> dp[i, j]]

\* one step of the backtrack: the cell it stands on and what it counts
Step(i, j, op) == [i |-> i, j |-> j, op |-> op]

\* the backtrack of levenshtein_distance from cell (i, j): the steps taken
Backtrack_DeletionFirst(ref, hyp, dp, i, j) ==
    LET walk[a \in 0..i, b \in 0..j] ==
            IF a = 0 /\ b = 0 THEN <<>>
            ELSE IF a = 0 THEN <<Step(a, b, "ins")>> \o walk[a, b - 1]
            ELSE IF b = 0 THEN <<Step(a, b, "del")>> \o walk[a - 1, b]
            ELSE IF ref[a] = hyp[b]
                 THEN <<Step(a, b, "match")>> \o walk[a - 1, b - 1]
            ELSE LET min_val == Min3(dp[a - 1, b], dp[a, b - 1],
                                     dp[a - 1, b - 1])
                 IN  IF dp[a - 1, b] = min_val
                     THEN <<Step(a, b, "del")>> \o walk[a - 1, b]
                     ELSE IF dp[a - 1, b - 1] = min_val
                     THEN <<Step(a, b, "sub")>> \o walk[a - 1, b - 1]
                     ELSE <<Step(a, b, "ins")>> \o walk[a, b - 1]
    IN  walk[i, j]
Backtrack(ref, hyp, dp, i, j) ==
    LET walk[a \in 0..i, b \in 0..j] ==
            IF a = 0 /\ b = 0 THEN <<>>
            ELSE IF a = 0 THEN <<Step(a, b, "ins")>> \o walk[a, b - 1]
            ELSE IF b = 0 THEN <<Step(a, b, "del")>> \o walk[a - 1, b]
            ELSE IF ref[a] = hyp[b]
                 THEN <<Step(a, b, "match")>> \o walk[a - 1, b - 1]
            ELSE LET min_val == Min3(dp[a - 1, b], dp[a, b - 1],
                                     dp[a - 1, b - 1])
                 IN  IF dp[a - 1, b - 1] = min_val
                     THEN <<Step(a, b, "sub")>> \o walk[a - 1, b - 1]
                     ELSE IF dp[a - 1, b] = min_val
                     THEN <<Step(a, b, "del")>> \o walk[a - 1, b]
                     ELSE <<Step(a, b, "ins")>> \o walk[a, b - 1]
    IN  walk[i, j]

\* how many steps of the path count op
CountOp(path, op) == Cardinality({k \in 1..Len(path) : path[k].op = op})

\* benchmark_manager::levenshtein_distance with all three out-parameters
\* given: the distance dp[m][n], the counts, and the path the backtrack took
levenshtein_distance(ref, hyp) ==
    LET m == Len(ref)
        n == Len(hyp)
        dp == DpTable(ref, hyp)
        path == Backtrack(ref, hyp, dp, m, n)
    IN  [distance |-> dp[m, n], subs |-> CountOp(path, "sub"),
         dels |-> CountOp(path, "del"), ins |-> CountOp(path, "ins"),
         path |-> path]

\* benchmark_manager::calculate_wer: the value returned, as the quotient
\* it is computed from, and the out-parameters; written says whether the
\* out-parameters were assigned
calculate_wer_RefOnly(reference, hypothesis) ==
    LET ref_words == tokenize(reference)
        hyp_words == tokenize(hypothesis)
        lev == levenshtein_distance(ref_words, hyp_words)
    IN  IF ref_words = <<>>
        THEN [wer |-> Quotient(100, 1), written |-> FALSE, distance |-> 0,
              substitutions |-> 0, deletions |-> 0, insertions |-> 0,
              path |-> <<>>, ref_words |-> ref_words,
              hyp_words |-> hyp_words]
        ELSE [wer |-> Quotient(lev.distance * 100, Len(ref_words)),
              written |-> TRUE, distance |-> lev.distance,
              substitutions |-> lev.subs, deletions |-> lev.dels,
              insertions |-> lev.ins, path |-> lev.path,
              ref_words |-> ref_words, hyp_words |-> hyp_words]
calculate_wer(reference, hypothesis) ==
    LET ref_words == tokenize(reference)
        hyp_words == tokenize(hypothesis)
        lev == levenshtein_distance(ref_words, hyp_words)
    IN  IF ref_words = <<>>
        THEN [wer |-> IF hyp_words = <<>> THEN Quotient(0, 1)
                      ELSE Quotient(100, 1),
              written |-> FALSE, distance |-> 0,
              substitutions |-> 0, deletions |-> 0, insertions |-> 0,
              path |-> <<>>, ref_words |-> ref_words,
              hyp_words |-> hyp_words]
        ELSE [wer |-> Quotient(lev.distance * 100, Len(ref_words)),
              written |-> TRUE, distance |-> lev.distance,
              substitutions |-> lev.subs, deletions |-> lev.dels,
              insertions |-> lev.ins, path |-> lev.path,
              ref_words |-> ref_words, hyp_words |-> hyp_words]

\* a call of calculate_wer: its arguments, and once it has returned
\* (pc = "done") what it gave
NoWerCall ==
    [pc |-> "none", reference |-> <<>>, hypothesis |-> <<>>,
     out |-> calculate_wer(<<>>, <<>>)]

\* the threads that report to the benchmark: the microphone's processing
\* thread and a WebSocket session
BenchThreads == {1, 2}

BenchIdleThread ==
    [pc |-> "idle", text |-> <<>>, type |-> "", audio_samples |-> 0,
     is_speech |-> FALSE, silence_frames_before |-> 0]

\* observation of the latest benchmark_manager call: unchanged says that
\* the call left the object as it was
NoBenchCall ==
    [op |-> "none", was_running |-> FALSE, unchanged |-> TRUE,
     results |-> DefaultResults]

\* whether start() and stop() have been called, the segments as they were
\* inserted since the last start(), and the object as the last stop()
\* left it
NoBenchHistory ==
    [started |-> FALSE, stopped |-> FALSE, inserted |-> <<>>,
     frozen |-> BenchConstructed]

BenchIdle ==
    /\ benchmark = BenchConstructed
    /\ bench_thr = [t \in BenchThreads |-> BenchIdleThread]
    /\ bench_call = NoBenchCall
    /\ bench_hist = NoBenchHistory
    /\ wer_call = NoWerCall

-----------------------------------------------------------------------------
(* mic_capture (src/src/mic_capture.cpp).  A sample is modelled by its     *)
(* position in the stream the hardware has produced since construction.    *)

\* mic_capture::mic_capture(cfg); m_stream is TRUE when it is not nullptr,
\* m_callback is TRUE when a callback is set, m_processing_thread is where
\* the thread running processing_loop stands ("none" when there is none),
\* and stopping is TRUE while a stop() call is between its first and its
\* last statement
MicConstructed(sample_rate, channels, frames_per_buffer, queue_size, accumulate_ms) ==
    [sample_rate            |-> sample_rate,
     channels               |-> channels,
     frames_per_buffer      |-> frames_per_buffer,
     queue_size             |-> queue_size,
     accumulate_ms          |-> accumulate_ms,
     m_frames_to_accumulate |-> (sample_rate * accumulate_ms) \div 1000,
     m_stream               |-> FALSE,
     m_audio_queue          |-> <<>>,
     m_callback             |-> FALSE,
     m_processing_thread    |-> "none",
     m_running              |-> FALSE,
     m_dropped_frames       |-> 0,
     m_accumulation_buffer  |-> <<>>,
     m_accumulated_frames   |-> 0,
     stopping               |-> FALSE]

\* vstream_app::initialize_microphone: the configuration the application
\* builds from its sample_rate and buffer_ms
AppMicConstructed(sample_rate, buffer_ms, queue_size) ==
    MicConstructed(sample_rate, 1, buffer_ms * 16, queue_size, buffer_ms)

\* m_audio_queue.try_enqueue: the queue, built for queue_size elements,
\* never allocates and refuses an element it has no room for
try_enqueue(m, chunk) ==
    IF Len(m.m_audio_queue) < m.queue_size
    THEN [ok |-> TRUE,  m |-> [m EXCEPT !.m_audio_queue = Append(@, chunk)]]
    ELSE [ok |-> FALSE, m |-> m]

\* CountDropped that adds the target of the accumulation
CountDropped_Target(m) ==
    [m EXCEPT !.m_dropped_frames = @ + m.m_frames_to_accumulate]

\* m_dropped_frames.fetch_add(m_accumulated_frames)
CountDropped(m) ==
    [m EXCEPT !.m_dropped_frames = @ + m.m_accumulated_frames]

\* mic_capture::pa_callback(input, frameCount): the object after the call,
\* the value returned, and the chunk handed to the queue if there is one
pa_callback(m, samples, frameCount) ==
    LET sample_count == frameCount * m.channels
        filled == [m EXCEPT
                     !.m_accumulation_buffer =
                         @ \o SubSeq(samples, 1, sample_count),
                     !.m_accumulated_frames = @ + frameCount]
    IN IF filled.m_accumulated_frames >= filled.m_frames_to_accumulate
       THEN LET put   == try_enqueue(filled, filled.m_accumulation_buffer)
                moved == IF put.ok THEN put.m ELSE CountDropped(put.m)
            IN [m         |-> [moved EXCEPT !.m_accumulation_buffer = <<>>,
                                            !.m_accumulated_frames = 0],
                ret       |-> "paContinue",
                completed |-> TRUE,
                refused   |-> ~put.ok,
                chunk     |-> filled.m_accumulation_buffer]
       ELSE [m         |-> filled,
             ret       |-> "paContinue",
             completed |-> FALSE,
             refused   |-> FALSE,
             chunk     |-> <<>>]

\* mic_start that clears the counter on a running mic_capture too
mic_start_Again(m, stream_ok) ==
    IF m.m_running
    THEN [m |-> [m EXCEPT !.m_dropped_frames = 0],
          ret |-> TRUE, started |-> FALSE]
    ELSE IF ~stream_ok THEN [m |-> m, ret |-> FALSE, started |-> FALSE]
    ELSE [m |-> [m EXCEPT !.m_stream = TRUE,
                          !.m_running = TRUE,
                          !.m_dropped_frames = 0,
                          !.m_processing_thread =
                              IF m.m_callback THEN "check" ELSE @],
          ret |-> TRUE, started |-> TRUE]

\* mic_capture::start(); stream_ok tells whether PortAudio finds a device,
\* opens the stream and starts it
mic_start(m, stream_ok) ==
    IF m.m_running THEN [m |-> m, ret |-> TRUE, started |-> FALSE]
    ELSE IF ~stream_ok THEN [m |-> m, ret |-> FALSE, started |-> FALSE]
    ELSE [m |-> [m EXCEPT !.m_stream = TRUE,
                          !.m_running = TRUE,
                          !.m_dropped_frames = 0,
                          !.m_processing_thread =
                              IF m.m_callback THEN "check" ELSE @],
          ret |-> TRUE, started |-> TRUE]

\* mic_capture::stop(), up to the join of the processing thread; on a
\* mic_capture that is not running it returns at once
mic_stop_begin(m) ==
    IF ~m.m_running THEN m
    ELSE [m EXCEPT !.m_running = FALSE, !.stopping = TRUE]

\* mic_stop_finish that leaves the queue as it is
mic_stop_finish_KeepQueue(m) ==
    [m EXCEPT !.m_processing_thread = "none",
              !.m_stream = FALSE,
              !.stopping = FALSE]

\* mic_capture::stop(), from the return of the join: the stream is stopped
\* and closed and the queue is emptied
mic_stop_finish(m) ==
    [m EXCEPT !.m_processing_thread = "none",
              !.m_stream = FALSE,
              !.m_audio_queue = <<>>,
              !.stopping = FALSE]

\* try_dequeue that takes the element enqueued last
try_dequeue_Lifo(m) ==
    IF Len(m.m_audio_queue) > 0
    THEN [ok |-> TRUE, chunk |-> m.m_audio_queue[Len(m.m_audio_queue)],
          m |-> [m EXCEPT !.m_audio_queue = SubSeq(@, 1, Len(@) - 1)]]
    ELSE [ok |-> FALSE, chunk |-> <<>>, m |-> m]

\* m_audio_queue.try_dequeue
try_dequeue(m) ==
    IF Len(m.m_audio_queue) > 0
    THEN [ok |-> TRUE, chunk |-> Head(m.m_audio_queue),
          m |-> [m EXCEPT !.m_audio_queue = Tail(@)]]
    ELSE [ok |-> FALSE, chunk |-> <<>>, m |-> m]

\* one turn of processing_loop that hands the chunk to m_callback twice
processing_loop_step_Twice(m) ==
    LET out == try_dequeue(m)
    IN IF out.ok
       THEN [m      |-> [out.m EXCEPT !.m_processing_thread = "check"],
             handed |-> IF m.m_callback THEN <<out.chunk, out.chunk>>
                                        ELSE <<>>]
       ELSE [m      |-> [m EXCEPT !.m_processing_thread = "wait"],
             handed |-> <<>>]

\* one turn of processing_loop after while (m_running): a chunk is dequeued
\* and handed to m_callback if one is set, or the thread waits on m_data_cv;
\* handed is what m_callback receives
processing_loop_step(m) ==
    LET out == try_dequeue(m)
    IN IF out.ok
       THEN [m      |-> [out.m EXCEPT !.m_processing_thread = "check"],
             handed |-> IF m.m_callback THEN <<out.chunk>> ELSE <<>>]
       ELSE [m      |-> [m EXCEPT !.m_processing_thread = "wait"],
             handed |-> <<>>]

\* the configurations of mic_capture the model runs: the application's at
\* 16 kHz and at 8 kHz with buffer_ms = 1, one with two channels whose
\* hardware buffer divides the target, and one whose buffer does not
MicQueueSizes == {1, 2}

MicConfigs ==
    UNION {{AppMicConstructed(16000, 1, q),
            AppMicConstructed(8000, 1, q),
            MicConstructed(8000, 2, 4, q, 1),
            MicConstructed(8000, 1, 6, q, 1)} : q \in MicQueueSizes}

\* observation of the latest mic_capture call
NoMicCall ==
    [op |-> "none", ret |-> "none", dropped_before |-> 0, started |-> FALSE,
     completed |-> FALSE, refused |-> FALSE, chunk |-> <<>>,
     was_running |-> FALSE, unchanged |-> TRUE]

\* what the hardware and the consumers have seen: hardware callbacks made,
\* samples produced, the chunks delivered (to the callback or through
\* dequeue_audio), the chunks whose enqueue was refused, the chunks the
\* queue accepted, the chunks handed to m_callback, and the samples the
\* hardware had produced when the latest start() opened the stream
NoMicHistory ==
    [callbacks |-> 0, samples |-> 0, delivered |-> <<>>, refused |-> <<>>,
     enqueued |-> <<>>, handed |-> <<>>, started_at |-> 0]

MicIdle ==
    /\ mic = MicConstructed(16000, 1, 160, 1000, 100)
    /\ mic_call = NoMicCall
    /\ mic_hist = NoMicHistory

InitAP ==
    /\ clock = 0
    /\ ap \in ApConfigs
    /\ ap_call = NoCall
    /\ ap_hist = NoHistory
    /\ m_server = <<>>
    /\ VadIdle
    /\ MicIdle
    /\ EngIdle
    /\ AppIdle
    /\ BenchIdle

\* the history after a chunk: is_speech is what process_audio took it for
HistoryAfterChunk(h, is_speech, finalizes) ==
    IF is_speech
    THEN [seen_speech |-> TRUE, silence_run |-> 0,
          finalized_since |-> finalizes > 0, finalized_before |-> FALSE]
    ELSE [h EXCEPT !.silence_run = Min(@ + 1, MaxSilenceRun),
                   !.finalized_since = @ \/ finalizes > 0,
                   !.finalized_before = h.finalized_since]

\* a result whose "text" handle_speech_result reads as a string
CarriesText(r) == r.ok /\ r.text.k = "string"

\* a chunk of len samples arrives; the VAD (when used) answers vad, the
\* engine answers r1 after d1 ms and, if flushed, r2.  (A delay is explored
\* where the call reads the clock again: in handle_final_result.)  With
\* noting, the observation of the call also tells how each result was
\* handled.
ProcessAudioCall(noting) ==
    \E len \in ChunkLens, vad \in BOOLEAN, r1 \in EngineResults,
       d1 \in Delays :
        LET is_speech == IF ap.m_use_vad THEN vad ELSE TRUE
            t1  == clock + d1
            fed == FeedStage(ap, len, vad, r1, clock, t1)
            due == NeedsFinalize(ap, fed, vad, clock)
        IN  /\ ap.m_use_vad \/ vad
            /\ is_speech \/ r1 = Malformed
            /\ (is_speech /\ CarriesText(r1)) \/ d1 = 0
            /\ ap.m_accumulated_audio_samples + len <= MaxAccumulated
            /\ t1 <= MaxTicks * TickMs
            /\ \E r2 \in IF due THEN FlushResults ELSE {Malformed} :
                    LET out == FinalizeStage(ap, fed, vad, r2, clock, t1)
                    IN  /\ clock' = t1
                        /\ ap' = out.ap
                        /\ ap_call' = Observed("process_audio", is_speech, r1,
                                                clock - fed.ap.m_last_finalize_time
                                                    >= ap.m_finalize_interval_ms,
                                                FreshText(r2, fed.ap.m_last_final_text),
                                                out.fx,
                                                IF ~noting THEN NoMore ELSE
                                                Noted(ap, fed, out, FALSE,
                                                      /\ len = 0
                                                      /\ is_speech => r1 = EmptyJson,
                                                      is_speech /\ Undecodable(r1),
                                                      due /\ Undecodable(r2),
                                                      (IF is_speech THEN TextOf(r1) ELSE {})
                                                      \cup (IF due THEN TextOf(r2) ELSE {}),
                                                      PartialCase(ap, is_speech, r1),
                                                      r1.partial.s))
                        /\ ap_hist' = HistoryAfterChunk(ap_hist, is_speech,
                                                        out.fx.finalizes)
                        /\ m_server' = IF noting
                                        THEN RememberNoted(m_server, out.fx.sent)
                                        ELSE Remember(m_server, out.fx.sent)
                        /\ UNCHANGED <<AppVars, BenchVars, EngVars, VadVars, MicVars>>

ApProcessAudio == ProcessAudioCall(FALSE)

\* force_finalize() called on its own (it is what a manual finalization runs)
ForceFinalizeCall(noting) ==
    \E r2 \in FlushResultsAfter(ap_call.op # "force_finalize") :
        LET out == force_finalize([ap |-> ap, fx |-> NoEffects], r2, clock)
        IN  /\ ap' = out.ap
            /\ ap_call' = Observed("force_finalize", FALSE, Malformed, FALSE,
                                    FreshText(r2, ap.m_last_final_text),
                                    out.fx,
                                    IF ~noting THEN NoMore ELSE
                                    Noted(ap, [ap |-> ap, fx |-> NoEffects], out,
                                          ap_call.op = "force_finalize", FALSE,
                                          FALSE, Undecodable(r2), TextOf(r2),
                                          "none", ""))
            /\ ap_hist' = [ap_hist EXCEPT !.finalized_since = TRUE]
            /\ m_server' = IF noting
                            THEN RememberNoted(m_server, out.fx.sent)
                            ELSE Remember(m_server, out.fx.sent)
            /\ UNCHANGED <<AppVars, BenchVars, EngVars, clock, VadVars, MicVars>>

ApForceFinalize == ForceFinalizeCall(FALSE)

\* time passes between two calls
Tick ==
    /\ clock + TickMs <= MaxTicks * TickMs
    /\ clock' = clock + TickMs
    /\ UNCHANGED <<AppVars, BenchVars, EngVars, ApVars, VadVars, MicVars>>

NextAP == ApProcessAudio \/ ApForceFinalize \/ Tick

SpecAP == InitAP /\ [][NextAP]_vars

\* the audio_processor with partial display and a benchmark, without and
\* with VAD, its calls observed in detail
InitAPNoted ==
    /\ InitAP
    /\ ap.m_show_partial /\ ap.m_benchmark

ApProcessAudioNoted == ProcessAudioCall(TRUE)

ApForceFinalizeNoted == ForceFinalizeCall(TRUE)

NextAPNoted == ApProcessAudioNoted \/ ApForceFinalizeNoted \/ Tick

SpecAPNoted == InitAPNoted /\ [][NextAPNoted]_vars

-----------------------------------------------------------------------------
(* The VAD on its own: chunks of any length, reset() and the passing time  *)

InitVAD ==
    /\ clock = 0
    /\ hangover_vad \in VadConfigs
    /\ vad_call = NoVadCall
    /\ vad_hist = NoVadHistory
    /\ ApIdle
    /\ MicIdle
    /\ EngIdle
    /\ AppIdle
    /\ BenchIdle

\* the history after a process call that classified frames with results
VadHistoryAfter(h, before, len, results, out, now) ==
    LET size  == before.m_vad.m_frame_size
        quiet == /\ Len(before.m_vad.m_buffer) = 0
                 /\ len > 0
                 /\ len % size = 0
                 /\ \A k \in 1..Len(results) : results[k] = 0
    IN [total    |-> h.total + len,
        frames   |-> h.frames + Len(out.core.frames),
        in_order |-> /\ h.in_order
                     /\ \A k \in 1..Len(out.core.frames) :
                           out.core.frames[k] = StreamFrame(h.frames + k, size),
        speech_frame_at |-> IF \E k \in 1..Len(results) : results[k] = 1
                            THEN now ELSE h.speech_frame_at,
        quiet_since |-> IF ~quiet THEN -1
                        ELSE IF h.quiet_since >= 0 THEN h.quiet_since ELSE now,
        speech_run  |-> IF out.core.ret THEN h.speech_run + 1 ELSE 0,
        calls       |-> h.calls + 1]

\* vad_with_hangover::process on a chunk of len samples; fvad_process
\* answers results, one per frame the call completes
VadProcess ==
    \E len \in VadChunkLens :
      \E results \in [1..CompleteFrames(hangover_vad.m_vad, len) -> FvadResults] :
        LET audio == Samples(vad_hist.total, len)
            out   == vad_with_hangover_process(hangover_vad, audio, results, clock)
        IN  /\ vad_hist.calls < MaxVadCalls
            /\ vad_hist.total + len <= MaxVadSamples
            /\ hangover_vad' = out.h
            /\ vad_call' = VadObserved("process", clock, len, hangover_vad,
                                       results, out.core.ret)
            /\ vad_hist' = VadHistoryAfter(vad_hist, hangover_vad, len,
                                           results, out, clock)
            /\ UNCHANGED <<AppVars, BenchVars, EngVars, clock, ApVars, MicVars>>

\* vad_with_hangover::reset
VadReset ==
    /\ hangover_vad' = vad_with_hangover_reset(hangover_vad)
    /\ vad_call' = [NoVadCall EXCEPT !.op = "reset", !.now = clock]
    /\ vad_hist' = NoVadHistory
    /\ UNCHANGED <<AppVars, BenchVars, EngVars, clock, ApVars, MicVars>>

NextVAD == VadProcess \/ VadReset \/ Tick

SpecVAD == InitVAD /\ [][NextVAD]_vars

-----------------------------------------------------------------------------
(* mic_capture on its own: the controlling thread (set_audio_callback,     *)
(* start, stop, dequeue_audio), the PortAudio thread (pa_callback) and the  *)
(* processing thread (processing_loop)                                     *)

InitMic ==
    /\ clock = 0
    /\ mic \in MicConfigs
    /\ mic_call = NoMicCall
    /\ mic_hist = NoMicHistory
    /\ ApIdle
    /\ VadIdle
    /\ EngIdle
    /\ AppIdle
    /\ BenchIdle

MicObserved(op, ret, before, after) ==
    [NoMicCall EXCEPT !.op = op, !.ret = ret,
                      !.dropped_before = before.m_dropped_frames,
                      !.was_running = before.m_running,
                      !.unchanged = (after = before)]

\* set_audio_callback(callback), before or after start(); an empty
\* std::function can be set as well
MicSetCallback ==
    \E callback \in BOOLEAN :
        /\ ~mic.stopping
        /\ mic.m_callback # callback
        /\ mic' = [mic EXCEPT !.m_callback = callback]
        /\ mic_call' = MicObserved("set_audio_callback", "void", mic, mic')
        /\ UNCHANGED <<AppVars, BenchVars, EngVars, clock, ApVars, VadVars, mic_hist>>

\* start(); noting says whether the history keeps where in the stream the
\* capture was started
MicStartCall(noting) ==
    \E stream_ok \in BOOLEAN :
        LET out == mic_start(mic, stream_ok)
        IN  /\ ~mic.stopping
            /\ mic' = out.m
            /\ mic_call' = [MicObserved("start", IF out.ret THEN "true"
                                                            ELSE "false",
                                        mic, out.m)
                               EXCEPT !.started = out.started]
            /\ mic_hist' = IF noting /\ out.started
                           THEN [mic_hist EXCEPT !.started_at = mic_hist.samples]
                           ELSE mic_hist
            /\ UNCHANGED <<AppVars, BenchVars, EngVars, clock, ApVars, VadVars>>

MicStart == MicStartCall(FALSE)

\* stop() returns at once on a stopped mic_capture; otherwise it sets
\* m_running to false and waits for the processing thread
MicStopBegin ==
    /\ ~mic.stopping
    /\ mic' = mic_stop_begin(mic)
    /\ mic_call' = MicObserved("stop", IF mic.m_running THEN "pending"
                                                        ELSE "void",
                               mic, mic')
    /\ UNCHANGED <<AppVars, BenchVars, EngVars, clock, ApVars, VadVars, mic_hist>>

\* stop() goes on once the processing thread, if any, has left its loop
MicStopFinish ==
    /\ mic.stopping
    /\ mic.m_processing_thread \in {"none", "done"}
    /\ mic' = mic_stop_finish(mic)
    /\ mic_call' = [MicObserved("stop", "void", mic, mic')
                       EXCEPT !.was_running = TRUE]
    /\ UNCHANGED <<AppVars, BenchVars, EngVars, clock, ApVars, VadVars, mic_hist>>

\* PortAudio calls pa_callback with frames_per_buffer frames while the
\* stream is open
PaCallback ==
    LET frameCount == mic.frames_per_buffer
        samples    == Samples(mic_hist.samples, frameCount * mic.channels)
        out        == pa_callback(mic, samples, frameCount)
    IN  /\ mic.m_stream
        /\ mic_hist.callbacks < MaxMicCallbacks
        /\ mic' = out.m
        /\ mic_call' = [MicObserved("pa_callback", out.ret, mic, out.m)
                           EXCEPT !.completed = out.completed,
                                  !.refused = out.refused,
                                  !.chunk = out.chunk]
        /\ mic_hist' = [mic_hist EXCEPT
                           !.callbacks = @ + 1,
                           !.samples = @ + Len(samples),
                           !.refused = IF out.refused
                                       THEN Append(@, out.chunk) ELSE @,
                           !.enqueued = IF out.completed /\ ~out.refused
                                        THEN Append(@, out.chunk) ELSE @]
        /\ UNCHANGED <<AppVars, BenchVars, EngVars, clock, ApVars, VadVars>>

\* processing_loop evaluates while (m_running)
ThreadCheck ==
    /\ mic.m_processing_thread = "check"
    /\ mic' = [mic EXCEPT !.m_processing_thread =
                              IF mic.m_running THEN "dequeue" ELSE "done"]
    /\ UNCHANGED <<AppVars, BenchVars, EngVars, clock, ApVars, VadVars, mic_call, mic_hist>>

\* processing_loop tries to dequeue: it hands a chunk to m_callback, or
\* waits on m_data_cv
ThreadDequeue ==
    LET out == processing_loop_step(mic)
    IN  /\ mic.m_processing_thread = "dequeue"
        /\ mic' = out.m
        /\ mic_hist' = [mic_hist EXCEPT !.delivered = @ \o out.handed,
                                        !.handed = @ \o out.handed]
        /\ UNCHANGED <<AppVars, BenchVars, EngVars, clock, ApVars, VadVars, mic_call>>

\* m_data_cv.wait_for returns: notified, or timed out after 100 ms
ThreadWake ==
    /\ mic.m_processing_thread = "wait"
    /\ mic' = [mic EXCEPT !.m_processing_thread = "check"]
    /\ UNCHANGED <<AppVars, BenchVars, EngVars, clock, ApVars, VadVars, mic_call, mic_hist>>

\* dequeue_audio(samples), the polling interface
MicDequeue ==
    LET out == try_dequeue(mic)
    IN  /\ mic' = out.m
        /\ mic_call' = MicObserved("dequeue_audio",
                                   IF out.ok THEN "true" ELSE "false",
                                   mic, out.m)
        /\ mic_hist' = [mic_hist EXCEPT
                           !.delivered = IF out.ok
                                         THEN Append(@, out.chunk) ELSE @]
        /\ UNCHANGED <<AppVars, BenchVars, EngVars, clock, ApVars, VadVars>>

NextMic ==
    \/ MicSetCallback
    \/ MicStart
    \/ MicStopBegin
    \/ MicStopFinish
    \/ PaCallback
    \/ ThreadCheck
    \/ ThreadDequeue
    \/ ThreadWake
    \/ MicDequeue

SpecMic == InitMic /\ [][NextMic]_vars

\* capture stopped and started again, the history keeping where in the
\* stream each start() fell
MicStartNoted == MicStartCall(TRUE)

NextMicSession ==
    \/ MicSetCallback
    \/ MicStartNoted
    \/ MicStopBegin
    \/ MicStopFinish
    \/ PaCallback
    \/ ThreadCheck
    \/ ThreadDequeue
    \/ ThreadWake
    \/ MicDequeue

SpecMicSession == InitMic /\ [][NextMicSession]_vars

\* the threads are scheduled by the operating system, wait_for times out,
\* and stop() goes on when join returns
MicFairness ==
    /\ WF_vars(ThreadCheck)
    /\ WF_vars(ThreadDequeue)
    /\ WF_vars(ThreadWake)
    /\ WF_vars(MicStopFinish)

SpecMicLive == SpecMic /\ MicFairness

\* set_audio_callback before start()
MicRegister == ~mic.m_running /\ MicSetCallback

\* capture left running: neither stop() nor dequeue_audio is called, and the
\* callback is not replaced after start()
NextMicRun ==
    \/ MicRegister
    \/ MicStart
    \/ PaCallback
    \/ ThreadCheck
    \/ ThreadDequeue
    \/ ThreadWake

SpecMicRun ==
    /\ InitMic
    /\ [][NextMicRun]_vars
    /\ WF_vars(ThreadCheck) /\ WF_vars(ThreadDequeue) /\ WF_vars(ThreadWake)

-----------------------------------------------------------------------------
(* The engine on its own: threads that call process_audio, reset, the      *)
(* configuration setters and has_partial_result on one engine              *)

InitEng ==
    /\ clock = 0
    /\ ApIdle
    /\ VadIdle
    /\ MicIdle
    /\ EngIdle
    /\ AppIdle
    /\ BenchIdle

\* thread t is between taking m_mutex and releasing it
InCall(t) == eng_thr[t].pc \in {"locked", "feed", "return"}

\* another thread's call is in progress when t touches the recognizer
Overlaps(t) == \E u \in EngThreads \ {t} : InCall(u)

\* a thread calls process_audio(audio_data, is_final)
EngProcessAudioCall(t) ==
    /\ eng_thr[t].pc = "idle"
    /\ eng_hist.calls < MaxEngineCalls
    /\ \E len \in AudioLens, is_final \in BOOLEAN :
         /\ eng_thr' = [eng_thr EXCEPT ![t] =
                          [NoEngCall EXCEPT !.pc = "lock",
                                            !.op = "process_audio",
                                            !.len = len,
                                            !.is_final = is_final]]
         /\ eng_hist' = [eng_hist EXCEPT !.calls = @ + 1,
                                         !.submitted = @ + len]
    /\ UNCHANGED <<AppVars, BenchVars, clock, ApVars, VadVars, MicVars, engine>>

\* a thread calls one of the other operations
EngOtherCall(t) ==
    /\ eng_thr[t].pc = "idle"
    /\ \E op \in EngOtherOps :
         eng_thr' = [eng_thr EXCEPT ![t] =
                       [NoEngCall EXCEPT !.pc = "lock", !.op = op]]
    /\ UNCHANGED <<AppVars, BenchVars, clock, ApVars, VadVars, MicVars, engine, eng_hist>>

\* the lock_guard at the top of every operation
EngLock(t) ==
    /\ eng_thr[t].pc = "lock"
    /\ MutexFree(engine)
    /\ engine' = [engine EXCEPT !.m_mutex = t]
    /\ eng_thr' = [eng_thr EXCEPT ![t].pc = "locked"]
    /\ UNCHANGED <<AppVars, BenchVars, clock, ApVars, VadVars, MicVars, eng_hist>>

\* process_audio up to its feeding loop
EngEnter(t) ==
    /\ eng_thr[t].pc = "locked"
    /\ eng_thr[t].op = "process_audio"
    /\ LET c == [eng_thr[t] EXCEPT !.final_before = eng_hist.final_since]
           out == process_audio_enter(engine, c)
       IN  /\ engine' = out.e
           /\ eng_thr' = [eng_thr EXCEPT ![t] = out.c]
           /\ eng_hist' =
                [eng_hist EXCEPT
                   !.final_since = IF c.len > 0 THEN FALSE
                                   ELSE @ \/ out.c.ret.kind = "final_result",
                   !.overlapped = @ \/ (out.c.trace # <<>> /\ Overlaps(t))]
    /\ UNCHANGED <<AppVars, BenchVars, clock, ApVars, VadVars, MicVars>>

\* one turn of process_audio's feeding loop
EngFeed(t) ==
    /\ eng_thr[t].pc = "feed"
    /\ \E result \in AcceptResults :
         LET out == process_audio_feed(engine, eng_thr[t], result)
         IN  /\ engine' = out.e
             /\ eng_thr' = [eng_thr EXCEPT ![t] = out.c]
             /\ eng_hist' = [eng_hist EXCEPT
                               !.final_since = @ \/ result > 0,
                               !.overlapped = @ \/ Overlaps(t)]
    /\ UNCHANGED <<AppVars, BenchVars, clock, ApVars, VadVars, MicVars>>

\* the body of reset, set_grammar, set_max_alternatives,
\* enable_nlsml_output or has_partial_result
EngRecognizerCall(t) ==
    /\ eng_thr[t].pc = "locked"
    /\ eng_thr[t].op \in EngOtherOps
    /\ \E has \in BOOLEAN :
         LET out == recognizer_call(engine, eng_thr[t], has)
         IN  /\ engine' = out.e
             /\ eng_thr' = [eng_thr EXCEPT ![t] = out.c]
    /\ eng_hist' = [eng_hist EXCEPT !.overlapped = @ \/ Overlaps(t)]
    /\ UNCHANGED <<AppVars, BenchVars, clock, ApVars, VadVars, MicVars>>

\* the operation returns: the lock_guard releases m_mutex
EngReturn(t) ==
    /\ eng_thr[t].pc = "return"
    /\ engine' = [engine EXCEPT !.m_mutex = 0]
    /\ eng_thr' = [eng_thr EXCEPT ![t].pc = "idle"]
    /\ UNCHANGED <<AppVars, BenchVars, clock, ApVars, VadVars, MicVars, eng_hist>>

NextEng ==
    \E t \in EngThreads :
        \/ EngProcessAudioCall(t)
        \/ EngOtherCall(t)
        \/ EngLock(t)
        \/ EngEnter(t)
        \/ EngFeed(t)
        \/ EngRecognizerCall(t)
        \/ EngReturn(t)

SpecEng == InitEng /\ [][NextEng]_vars

-----------------------------------------------------------------------------
(* The engine shared as vstream_app wires it: thread 1 is the microphone's *)
(* processing thread inside audio_processor::force_finalize, thread 2 a   *)
(* WebSocket handler inside handle_websocket_audio                         *)

\* force_finalize: m_result_buffer = m_engine->process_audio({}, true)
FinalizeFlush(t) ==
    /\ eng_thr[t].pc = "idle"
    /\ eng_thr[t].caller = "none"
    /\ eng_hist.calls < MaxEngineCalls
    /\ eng_thr' = [eng_thr EXCEPT ![t] =
                     [NoEngCall EXCEPT !.pc = "lock", !.op = "process_audio",
                                       !.len = 0, !.is_final = TRUE,
                                       !.caller = "flush"]]
    /\ eng_hist' = [eng_hist EXCEPT !.calls = @ + 1]
    /\ UNCHANGED <<AppVars, BenchVars, clock, ApVars, VadVars, MicVars, engine>>

\* force_finalize after the flush returned and its result was handled:
\* m_engine->reset()
FinalizeReset(t) ==
    /\ eng_thr[t].pc = "idle"
    /\ eng_thr[t].caller = "flush"
    /\ eng_thr' = [eng_thr EXCEPT ![t] =
                     [NoEngCall EXCEPT !.pc = "lock", !.op = "reset",
                                       !.caller = "reset"]]
    /\ UNCHANGED <<AppVars, BenchVars, clock, ApVars, VadVars, MicVars, engine, eng_hist>>

\* force_finalize after reset() returned: the rest touches the
\* audio_processor only
FinalizeDone(t) ==
    /\ eng_thr[t].pc = "idle"
    /\ eng_thr[t].caller = "reset"
    /\ eng_thr' = [eng_thr EXCEPT ![t].caller = "none"]
    /\ UNCHANGED <<AppVars, BenchVars, clock, ApVars, VadVars, MicVars, engine, eng_hist>>

NextEngShared ==
    \/ FinalizeFlush(1)
    \/ FinalizeReset(1)
    \/ FinalizeDone(1)
    \/ EngProcessAudioCall(2)
    \/ \E t \in EngThreads :
        \/ EngLock(t)
        \/ EngEnter(t)
        \/ EngFeed(t)
        \/ EngRecognizerCall(t)
        \/ EngReturn(t)

SpecEngShared == InitEng /\ [][NextEngShared]_vars

-----------------------------------------------------------------------------
(* The application: the thread inside run(), and the signal handler, the   *)
(* WebSocket handlers and other threads that act while run() is under way  *)

\* audio payloads handled in one run
MaxMessages == 2

InitApp ==
    /\ clock = 0
    /\ ApIdle
    /\ VadIdle
    /\ MicIdle
    /\ EngIdle
    /\ BenchIdle
    /\ app \in AppConfigs
    /\ app_call = NoAppCall
    /\ app_hist = NoAppHistory

\* main calls run()
AppRun ==
    /\ app.pc = "constructed"
    /\ app' = [app EXCEPT !.pc = "setup"]
    /\ UNCHANGED <<clock, ApVars, VadVars, MicVars, EngVars, BenchVars,
                   app_call, app_hist>>

\* run(): setup_signal_handlers()
RunSetupSignalHandlers ==
    /\ app.pc = "setup"
    /\ app' = [app EXCEPT !.handlers = TRUE, !.pc = "initialize"]
    /\ UNCHANGED <<clock, ApVars, VadVars, MicVars, EngVars, BenchVars,
                   app_call, app_hist>>

\* run(): initialize_engine, initialize_server, initialize_benchmark (which
\* starts the benchmark) and initialize_microphone; an exception thrown by
\* one of them makes run() return 1
RunInitialize ==
    /\ app.pc = "initialize"
    /\ \E ok \in BOOLEAN :
        app' = IF ok
               THEN [app EXCEPT
                        !.m_engine = TRUE,
                        !.m_server = "created",
                        !.m_benchmark =
                            IF app.benchmark_enabled THEN "running" ELSE @,
                        !.m_mic = IF app.use_mic THEN "running" ELSE @,
                        !.pc = "start_server"]
               ELSE [app EXCEPT !.ret = 1, !.pc = "done"]
    /\ UNCHANGED <<clock, ApVars, VadVars, MicVars, EngVars, BenchVars,
                   app_call, app_hist>>

\* run(): m_server->start(), after which clients are served; when it throws
\* run() returns 1
RunStartServer ==
    /\ app.pc = "start_server"
    /\ \E ok \in BOOLEAN :
        app' = IF ok
               THEN [app EXCEPT !.m_server = "running", !.pc = "mark"]
               ELSE [app EXCEPT !.ret = 1, !.pc = "done"]
    /\ UNCHANGED <<clock, ApVars, VadVars, MicVars, EngVars, BenchVars,
                   app_call, app_hist>>

\* run(): m_running = true
RunMarkRunning ==
    /\ app.pc = "mark"
    /\ app' = [app EXCEPT !.m_running = TRUE, !.pc = "loop"]
    /\ UNCHANGED <<clock, ApVars, VadVars, MicVars, EngVars, BenchVars,
                   app_call, app_hist>>

\* run(): the test of while (m_running.load())
RunLoopTest ==
    /\ app.pc = "loop"
    /\ app' = [app EXCEPT !.pc = IF app.m_running THEN "sleep"
                                 ELSE "shutdown"]
    /\ UNCHANGED <<clock, ApVars, VadVars, MicVars, EngVars, BenchVars,
                   app_call, app_hist>>

\* run(): the body of the loop, sleep_for(100 ms) and print_periodic_stats
RunSleep ==
    /\ app.pc = "sleep"
    /\ app' = [app EXCEPT !.pc = "loop"]
    /\ UNCHANGED <<clock, ApVars, VadVars, MicVars, EngVars, BenchVars,
                   app_call, app_hist>>

\* run() after the loop: the benchmark is stopped and exported, the
\* microphone stopped and released, the server stopped; run() returns 0
RunShutdown ==
    /\ app.pc = "shutdown"
    /\ app' = [app EXCEPT
                  !.m_benchmark =
                      IF @ # "none" /\ app.benchmark_enabled THEN "stopped"
                      ELSE @,
                  !.m_mic = IF @ # "none" THEN "stopped" ELSE @,
                  !.m_server = "stopped",
                  !.ret = 0,
                  !.pc = "done"]
    /\ UNCHANGED <<clock, ApVars, VadVars, MicVars, EngVars, BenchVars,
                   app_call, app_hist>>

\* run() has been entered and has not returned
RunUnderWay == app.pc \notin {"constructed", "done"}

\* stop() called by op: the signal handler or another thread
StopCall(op) ==
    /\ app' = stop(app)
    /\ app_call' = [NoAppCall EXCEPT !.op = op,
                                     !.was_running = app.m_running,
                                     !.now_running = stop(app).m_running]
    /\ app_hist' = [app_hist EXCEPT !.stop_requested = TRUE]
    /\ UNCHANGED <<clock, ApVars, VadVars, MicVars, EngVars, BenchVars>>

\* SIGINT or SIGTERM once the handlers are installed: signal_handler
AppSignal ==
    /\ RunUnderWay
    /\ app.handlers
    /\ StopCall("signal")

\* another thread calls stop()
AppStop ==
    /\ RunUnderWay
    /\ StopCall("stop")

\* a client sends a command: handle_websocket_command
AppCommand ==
    /\ app.m_server = "running"
    /\ \E command \in Commands, has_grammar \in BOOLEAN :
        LET done == handle_websocket_command(app, command, has_grammar)
        IN  /\ app' = done.app
            /\ app_call' = [NoAppCall EXCEPT
                               !.op = "command",
                               !.command = command,
                               !.has_grammar = has_grammar,
                               !.status = done.status,
                               !.message = done.message,
                               !.engine = done.engine,
                               !.was_running = app.m_running,
                               !.now_running = done.app.m_running]
            /\ app_hist' = [app_hist EXCEPT
                               !.stop_requested = @ \/ command = "stop"]
    /\ UNCHANGED <<clock, ApVars, VadVars, MicVars, EngVars, BenchVars>>

\* what a decodable engine result carries for a listener: its text and
\* whether it is a final or a partial one
Carried(r, confidence) ==
    IF ~WsThrows(r, confidence) /\ WsMember(r).s # ""
    THEN [text |-> WsMember(r).s, type |-> WsType(r)]
    ELSE NoPayload

\* a client sends an audio payload: handle_websocket_audio
AppWsAudio ==
    /\ app.m_server = "running"
    /\ app.m_messages_processed < MaxMessages
    /\ \E session \in Sessions, r \in EngineResults,
          confidence \in Confidences :
        LET done == handle_websocket_audio(app, session, r, confidence)
        IN  /\ app' = done.app
            /\ app_call' = [NoAppCall EXCEPT
                               !.op = "audio",
                               !.engine = done.engine,
                               !.was_running = app.m_running,
                               !.now_running = done.app.m_running,
                               !.carried = Carried(r, confidence),
                               !.repeated =
                                   /\ Carried(r, confidence) # NoPayload
                                   /\ app_hist.last[session] =
                                          Carried(r, confidence),
                               !.sent = done.sent]
            /\ app_hist' = [app_hist EXCEPT
                               !.last[session] = Carried(r, confidence)]
    /\ UNCHANGED <<clock, ApVars, VadVars, MicVars, EngVars, BenchVars>>

NextApp ==
    \/ AppRun
    \/ RunSetupSignalHandlers
    \/ RunInitialize
    \/ RunStartServer
    \/ RunMarkRunning
    \/ RunLoopTest
    \/ RunSleep
    \/ RunShutdown
    \/ AppSignal
    \/ AppStop
    \/ AppCommand
    \/ AppWsAudio

SpecApp == InitApp /\ [][NextApp]_vars

-----------------------------------------------------------------------------
(* The benchmark on its own: the application thread calls start() and      *)
(* stop(), the reporting threads call add_transcription and                *)
(* add_vad_decision.  benchmark_manager has no lock and m_is_running is a  *)
(* plain bool, so a reporting thread that has passed its test of           *)
(* m_is_running goes on whatever the application thread does meanwhile.    *)

\* segments and VAD decisions reported in one run
MaxSegments == 2
MaxDecisions == 1

\* audio_samples and silence_frames_before handed in
SampleCounts == {1600}
SilenceCounts == {3}

InitBench ==
    /\ clock = 0
    /\ ApIdle
    /\ VadIdle
    /\ MicIdle
    /\ EngIdle
    /\ AppIdle
    /\ BenchIdle

\* the number of threads past the test of m_is_running in the operation
Pending(pc) == Cardinality({t \in BenchThreads : bench_thr[t].pc = pc})

\* benchmark_manager::start
BenchStart ==
    /\ benchmark' = bench_start(benchmark, clock)
    /\ bench_call' = [op |-> "start", was_running |-> benchmark.m_is_running,
                      unchanged |-> bench_start(benchmark, clock) = benchmark,
                      results |-> DefaultResults]
    /\ bench_hist' = [bench_hist EXCEPT !.started = TRUE, !.stopped = FALSE,
                                        !.inserted = <<>>]
    /\ UNCHANGED <<clock, ApVars, VadVars, MicVars, EngVars, AppVars, wer_call,
                   bench_thr>>

\* benchmark_manager::stop
BenchStop ==
    /\ benchmark' = bench_stop(benchmark)
    /\ bench_call' = [op |-> "stop", was_running |-> benchmark.m_is_running,
                      unchanged |-> bench_stop(benchmark) = benchmark,
                      results |-> stop_results(benchmark, clock)]
    /\ bench_hist' = [bench_hist EXCEPT !.stopped = TRUE,
                                        !.frozen = bench_stop(benchmark)]
    /\ UNCHANGED <<clock, ApVars, VadVars, MicVars, EngVars, AppVars, wer_call,
                   bench_thr>>

\* thread t calls add_transcription: if (!m_is_running) return;
BenchAddTranscription(t) ==
    /\ bench_thr[t].pc = "idle"
    /\ Len(benchmark.m_segments) + Pending("append") < MaxSegments
    /\ \E text \in BenchTexts, type \in SegmentTypes,
          audio_samples \in SampleCounts :
        bench_thr' = [bench_thr EXCEPT ![t] =
            IF benchmark.m_is_running
            THEN [BenchIdleThread EXCEPT !.pc = "append", !.text = text,
                                         !.type = type,
                                         !.audio_samples = audio_samples]
            ELSE BenchIdleThread]
    /\ bench_call' = [op |-> "add_transcription",
                      was_running |-> benchmark.m_is_running,
                      unchanged |-> TRUE, results |-> DefaultResults]
    /\ UNCHANGED <<clock, ApVars, VadVars, MicVars, EngVars, AppVars, wer_call,
                   benchmark, bench_hist>>

\* thread t in add_transcription: the segment is built and pushed
BenchAppend(t) ==
    /\ bench_thr[t].pc = "append"
    /\ LET c == bench_thr[t]
       IN  /\ benchmark' = append_segment(benchmark, c.text, c.type,
                                          c.audio_samples)
           /\ bench_hist' = [bench_hist EXCEPT !.inserted =
                  Append(@, NewSegment(c.text, c.type, c.audio_samples))]
    /\ bench_thr' = [bench_thr EXCEPT ![t] = BenchIdleThread]
    /\ bench_call' = [op |-> "append",
                      was_running |-> benchmark.m_is_running,
                      unchanged |-> FALSE, results |-> DefaultResults]
    /\ UNCHANGED <<clock, ApVars, VadVars, MicVars, EngVars, AppVars, wer_call>>

\* thread t calls add_vad_decision: if (!m_is_running) return;
BenchAddVadDecision(t) ==
    /\ bench_thr[t].pc = "idle"
    /\ Len(benchmark.m_vad_decisions) + Pending("decision") < MaxDecisions
    /\ \E is_speech \in BOOLEAN, silence_frames_before \in SilenceCounts :
        bench_thr' = [bench_thr EXCEPT ![t] =
            IF benchmark.m_is_running
            THEN [BenchIdleThread EXCEPT
                     !.pc = "decision", !.is_speech = is_speech,
                     !.silence_frames_before = silence_frames_before]
            ELSE BenchIdleThread]
    /\ bench_call' = [op |-> "add_vad_decision",
                      was_running |-> benchmark.m_is_running,
                      unchanged |-> TRUE, results |-> DefaultResults]
    /\ UNCHANGED <<clock, ApVars, VadVars, MicVars, EngVars, AppVars, wer_call,
                   benchmark, bench_hist>>

\* thread t in add_vad_decision: the decision is pushed and written into
\* the last segment
BenchRecordDecision(t) ==
    /\ bench_thr[t].pc = "decision"
    /\ LET c == bench_thr[t]
           after == record_vad_decision(benchmark, c.is_speech,
                                        c.silence_frames_before)
       IN  /\ benchmark' = after
           /\ bench_call' = [op |-> "decision",
                             was_running |-> benchmark.m_is_running,
                             unchanged |-> after.m_segments
                                               = benchmark.m_segments,
                             results |-> DefaultResults]
    /\ bench_thr' = [bench_thr EXCEPT ![t] = BenchIdleThread]
    /\ UNCHANGED <<clock, ApVars, VadVars, MicVars, EngVars, AppVars, wer_call,
                   bench_hist>>

\* thread t calls get_current_results (get_stats from the run loop's
\* periodic statistics or from a WebSocket command): no lock is taken
BenchGetResults(t) ==
    /\ bench_thr[t].pc = "idle"
    /\ bench_thr' = [bench_thr EXCEPT ![t] =
                         [BenchIdleThread EXCEPT !.pc = "read"]]
    /\ bench_call' = [op |-> "get_current_results",
                      was_running |-> benchmark.m_is_running,
                      unchanged |-> TRUE, results |-> DefaultResults]
    /\ UNCHANGED <<clock, ApVars, VadVars, MicVars, EngVars, AppVars, wer_call,
                   benchmark, bench_hist>>

\* thread t in get_current_results: m_segments has been iterated and the
\* results are returned
BenchResults(t) ==
    /\ bench_thr[t].pc = "read"
    /\ bench_thr' = [bench_thr EXCEPT ![t] = BenchIdleThread]
    /\ bench_call' = [op |-> "results",
                      was_running |-> benchmark.m_is_running,
                      unchanged |-> TRUE,
                      results |-> get_current_results(benchmark, clock)]
    /\ UNCHANGED <<clock, ApVars, VadVars, MicVars, EngVars, AppVars, wer_call,
                   benchmark, bench_hist>>

NextBench ==
    \/ BenchStart
    \/ BenchStop
    \/ \E t \in BenchThreads :
        \/ BenchAddTranscription(t)
        \/ BenchAppend(t)
        \/ BenchAddVadDecision(t)
        \/ BenchRecordDecision(t)
        \/ BenchGetResults(t)
        \/ BenchResults(t)

SpecBench == InitBench /\ [][NextBench]_vars

\* a benchmark run in time, reported to by one thread
NextBenchTimed ==
    \/ BenchStart
    \/ BenchStop
    \/ Tick
    \/ BenchAddTranscription(1)
    \/ BenchAppend(1)
    \/ BenchAddVadDecision(1)
    \/ BenchRecordDecision(1)
    \/ BenchGetResults(1)
    \/ BenchResults(1)

SpecBenchTimed == InitBench /\ [][NextBenchTimed]_vars

-----------------------------------------------------------------------------
(* calculate_wer on its own: a call with a reference and a hypothesis      *)
(* drawn from bounded sets of texts                                        *)

\* the characters of the texts explored: letters of both cases, the
\* space, punctuation
WerAlphabet == {"a", "B", " ", "."}

\* the longest text over WerAlphabet explored
MaxTextLen == 3

\* the words of the texts built word by word, and how many words at most
WerWords == {<<"a">>, <<"b">>, <<"a", "b">>}
MaxTokens == 3

\* every text over WerAlphabet of at most MaxTextLen characters
CharTexts ==
    UNION {[1..n -> WerAlphabet] : n \in 0..MaxTextLen}

\* the words of ws joined by single spaces
RECURSIVE JoinWords(_)
JoinWords(ws) ==
    IF ws = <<>> THEN <<>>
    ELSE IF Len(ws) = 1 THEN ws[1]
    ELSE ws[1] \o <<" ">> \o JoinWords(Tail(ws))

\* every text of at most MaxTokens words of WerWords
WordTexts ==
    {JoinWords(ws) : ws \in UNION {[1..n -> WerWords] : n \in 0..MaxTokens}}

\* "the quick brown fox" and "the quik brown dog"
ExampleReference ==
    <<"t", "h", "e", " ", "q", "u", "i", "c", "k", " ",
      "b", "r", "o", "w", "n", " ", "f", "o", "x">>
ExampleHypothesis ==
    <<"t", "h", "e", " ", "q", "u", "i", "k", " ",
      "b", "r", "o", "w", "n", " ", "d", "o", "g">>

\* the (reference, hypothesis) pairs explored
WerInputs ==
    (CharTexts \X CharTexts) \cup (WordTexts \X WordTexts)
        \cup {<<ExampleReference, ExampleHypothesis>>}

InitWer ==
    /\ clock = 0
    /\ ApIdle
    /\ VadIdle
    /\ MicIdle
    /\ EngIdle
    /\ AppIdle
    /\ benchmark = BenchConstructed
    /\ bench_thr = [t \in BenchThreads |-> BenchIdleThread]
    /\ bench_call = NoBenchCall
    /\ bench_hist = NoBenchHistory
    /\ \E input \in WerInputs :
         wer_call = [NoWerCall EXCEPT !.pc = "call",
                                      !.reference = input[1],
                                      !.hypothesis = input[2]]

\* calculate_wer(reference, hypothesis, &subs, &dels, &ins)
CalculateWer ==
    /\ wer_call.pc = "call"
    /\ wer_call' = [wer_call EXCEPT
                      !.pc = "done",
                      !.out = calculate_wer(wer_call.reference,
                                            wer_call.hypothesis)]
    /\ UNCHANGED <<clock, ApVars, VadVars, MicVars, EngVars, AppVars,
                   benchmark, bench_thr, bench_call, bench_hist>>

NextWer == CalculateWer

SpecWer == InitWer /\ [][NextWer]_vars

-----------------------------------------------------------------------------
(* Claims about the audio_processor, checked under SpecAP                  *)

SilenceChunk ==
    ap_call.op = "process_audio" /\ ap.m_use_vad /\ ~ap_call.is_speech

\* the run of silence chunks has just reached the threshold (the first
\* silence chunk reaches a threshold below 1)
ReachedThreshold ==
    ap_hist.silence_run = Max(ap.m_silence_frames_threshold, 1)

\* a call that finalizes does so once: one flush, one reset, at most one
\* broadcast; a silence chunk that does not finalize touches nothing
FinalizedOnceOrNot ==
    /\ ap_call.finalizes <= 1
    /\ ap_call.flushes = ap_call.finalizes
    /\ ap_call.resets = ap_call.finalizes
    /\ ap_call.sent <= ap_call.finalizes

\* C2 as stated: with VAD, after at least one speech chunk, a silence chunk
\* runs force_finalize exactly when the count of consecutive silence chunks
\* since the last speech chunk reaches silence_frames_threshold, once per run.
C2_Original ==
    (SilenceChunk /\ ap_hist.seen_speech) =>
        /\ (ap_call.finalizes = 1) <=> ReachedThreshold
        /\ FinalizedOnceOrNot

\* C2, amended: a silence chunk runs force_finalize exactly when a speech
\* chunk has been seen, no force_finalize has run since that chunk was fed to
\* the engine, and the count of silence chunks reaches the threshold; it then
\* runs once (one flush, one reset, at most one broadcast).
C2_SilenceFinalization ==
    SilenceChunk =>
        /\ (ap_call.finalizes = 1) <=>
              /\ ap_hist.seen_speech
              /\ ~ap_hist.finalized_before
              /\ ReachedThreshold
        /\ FinalizedOnceOrNot

\* C2's case: threshold 2, the second silence chunk after speech finalizes.
C2_Witness ==
    /\ SilenceChunk
    /\ ap.m_silence_frames_threshold = 2
    /\ ap_hist.silence_run = 2
    /\ ap_call.finalizes = 1
    /\ ap_call.sent = 1

\* the latest call was process_audio on a chunk taken as speech
SpeechChunk == ap_call.op = "process_audio" /\ ap_call.is_speech

\* on a speech chunk force_finalize runs once if the interval has elapsed
\* since m_last_finalize_time (as it stands after the dispatch), else not
PeriodicExactly ==
    /\ ap_call.finalizes = (IF ap_call.elapsed THEN 1 ELSE 0)
    /\ ap_call.flushes = ap_call.finalizes
    /\ ap_call.resets = ap_call.finalizes

\* C3 as stated: on every speech chunk force_finalize runs exactly once if
\* the interval has elapsed and not otherwise, and a partial-only result that
\* crosses the interval yields exactly one broadcast and one reset.
C3_Original ==
    SpeechChunk =>
        /\ PeriodicExactly
        /\ (ap_call.partial_only /\ ap_call.elapsed) =>
              (ap_call.sent = 1 /\ ap_call.resets = 1)

\* C3, amended: as C3, but the partial-only chunk that crosses the interval
\* yields one reset and at most one broadcast: exactly one if the flush
\* returns a non-empty text other than the last final text, none otherwise.
C3_PeriodicFinalization ==
    SpeechChunk =>
        /\ PeriodicExactly
        /\ (ap_call.partial_only /\ ap_call.elapsed) =>
              /\ ap_call.sent = (IF ap_call.fresh THEN 1 ELSE 0)
              /\ ap_call.resets = 1

\* C3's case: without VAD, a partial-only chunk crosses the interval and the
\* flush is broadcast.
C3_Witness ==
    /\ SpeechChunk
    /\ ~ap.m_use_vad
    /\ ap_call.partial_only
    /\ ap_call.elapsed
    /\ ap_call.sent = 1
    /\ ap_call.resets = 1

\* the latest call was force_finalize()
Finalized == ap_call.op = "force_finalize"

C23_EmptyChunkInert ==
    (ap_call.op = "process_audio" /\ ap_call.empty_chunk) =>
        /\ ap_call.kept
        /\ ap_call.sent = 0
        /\ ap_call.finalizes = 0
        /\ ap_call.resets = 0

\* what the flush of the latest call broadcast
FlushSent == ap_call.sent - ap_call.feed_sent

\* C24 as stated: an engine result that is not valid JSON, or whose "text"
\* or "partial" has a non-string type, causes no broadcast and leaves
\* last_final_text and last_partial_text unchanged, in process_audio and in
\* force_finalize alike.
C24_Original ==
    /\ ap_call.bad_feed => (ap_call.feed_sent = 0 /\ ap_call.feed_kept)
    /\ ap_call.bad_flush => (FlushSent = 0 /\ ap_call.flush_kept)

\* C24, amended: an undecodable result causes no broadcast and the call goes
\* on as usual.  For the result of a chunk both texts are left unchanged and
\* the periodic finalization is still decided as for any speech chunk; for
\* the result of a flush last_final_text is unchanged, and force_finalize
\* then resets the engine and clears last_partial_text as it always does.
C24_MalformedSwallowed ==
    /\ ap_call.bad_feed =>
          /\ ap_call.feed_sent = 0
          /\ ap_call.feed_kept
          /\ ap_call.finalizes = (IF ap_call.elapsed THEN 1 ELSE 0)
    /\ ap_call.bad_flush =>
          /\ FlushSent = 0
          /\ ap_call.final_kept
          /\ ap.m_last_partial_text = ""
          /\ ap_call.resets = 1

\* C24's case: a chunk's result is undecodable while a final text and a
\* partial text are remembered, and the flush that follows in the same call
\* is undecodable too.
C24_Witness ==
    /\ ap_call.op = "process_audio"
    /\ ap_call.bad_feed
    /\ ap_call.bad_flush
    /\ ap.m_last_final_text # ""
    /\ ~ap_call.flush_kept

\* C25: every text the audio processor passes to the server's broadcast was
\* taken from the "text" member of an engine result of the same call; a
\* result carrying only "partial" causes no broadcast, and when no flush
\* follows in the call, no benchmark segment and at most the update of
\* last_partial_text.
C25_NeverBroadcastsPartials ==
    /\ ap_call.from_text
    /\ ap_call.partial_only =>
          /\ ap_call.feed_sent = 0
          /\ ap_call.finalizes = 0 =>
                /\ ap_call.sent = 0
                /\ ap_call.segments = 0
                /\ ap_call.shown <= 1

\* C25's case: after broadcasts, a partial-only result was shown and
\* remembered with a benchmark attached, and nothing was broadcast for it.
C25_Witness ==
    /\ ap_call.partial_only
    /\ ap_call.shown = 1
    /\ ap_call.finalizes = 0
    /\ ap.m_benchmark
    /\ ap.m_last_partial_text = "a"
    /\ Len(m_server) >= 1

-----------------------------------------------------------------------------
(* Claims about vad_with_hangover and webrtc_vad, checked under SpecVAD    *)

\* the latest call was vad_with_hangover::process
VadProcessed == vad_call.op = "process"

\* C4, in the form a finite run refutes: once SPEAKING has been entered, when
\* the chunks have been made only of complete frames classified non-speech
\* for more than hangover_ms, the chunk being processed is taken as a silence
\* frame and is_speaking() is false.
C4_LeavesSpeaking ==
    (/\ VadProcessed
     /\ vad_call.was_speaking
     /\ vad_hist.quiet_since >= 0
     /\ vad_call.now - vad_hist.quiet_since > hangover_vad.hangover_ms)
        => ~hangover_vad.m_is_speaking

C6_StartupGuard ==
    (VadProcessed /\ ~vad_call.was_speaking) =>
        /\ hangover_vad.m_is_speaking =>
              /\ vad_call.ret
              /\ vad_hist.speech_run >=
                    hangover_vad.startup_ms
                        \div hangover_vad.m_vad.frame_duration_ms
        /\ ~vad_call.ret =>
              /\ ~hangover_vad.m_is_speaking
              /\ hangover_vad.m_speech_frame_count = 0

\* C6's case: with startup_ms = 30 and 10 ms frames, SPEAKING is entered on
\* the third consecutive speech result.
C6_Witness ==
    /\ VadProcessed
    /\ ~vad_call.was_speaking
    /\ hangover_vad.m_is_speaking
    /\ hangover_vad.startup_ms = 30
    /\ hangover_vad.m_vad.frame_duration_ms = 10
    /\ vad_hist.speech_run = 3

\* C7: webrtc_vad::process returns, when the call completes at least one
\* frame, whether one of the frames classified during the call was speech,
\* and otherwise the value the previous call returned (false after
\* construction or reset).
C7_CoreResult ==
    VadProcessed =>
        vad_call.ret = (IF vad_call.nframes >= 1 THEN vad_call.any_speech
                                                 ELSE vad_call.prev_ret)

\* C8: since construction or the last reset(), the residual buffer holds
\* the trailing (total mod frame_size) samples submitted, in order, and the
\* frames classified are the first floor(total / frame_size) frames of the
\* stream, each classified once.
C8_CoreBuffering ==
    LET size == hangover_vad.m_vad.m_frame_size
        buf  == hangover_vad.m_vad.m_buffer
    IN  /\ Len(buf) = vad_hist.total % size
        /\ Len(buf) < size
        /\ \A i \in 1..Len(buf) : buf[i] = vad_hist.total - Len(buf) + i
        /\ vad_hist.frames = vad_hist.total \div size
        /\ vad_hist.in_order

\* C8's case: several chunks not aligned with the frames have been
\* submitted; frames have been classified and a residue is buffered.
C8_Witness ==
    /\ VadProcessed
    /\ vad_hist.calls >= 3
    /\ vad_hist.frames >= 2
    /\ Len(hangover_vad.m_vad.m_buffer) > 0
    /\ vad_call.nframes >= 1
    /\ ~vad_call.whole_frames

-----------------------------------------------------------------------------
(* Claims about mic_capture, checked under SpecMic                         *)

\* the frames of a chunk of interleaved samples
FramesOf(chunk) == Len(chunk) \div mic.channels

\* C9: every chunk that mic capture enqueues, and therefore delivers,
\* contains exactly sample_rate * accumulate_ms / 1000 frames, that many
\* samples per channel.
C9_ChunkLength ==
    LET target == (mic.sample_rate * mic.accumulate_ms) \div 1000
        Exact(chunk) == /\ Len(chunk) = target * mic.channels
                        /\ FramesOf(chunk) = target
    IN  /\ \A i \in 1..Len(mic.m_audio_queue) : Exact(mic.m_audio_queue[i])
        /\ \A i \in 1..Len(mic_hist.delivered) : Exact(mic_hist.delivered[i])

\* C10: dropped_frames is set to 0 by a start() that starts capture, is
\* increased by the frame count of a completed chunk the queue refused, and
\* does not change otherwise; the refused chunk is neither queued nor
\* delivered, and pa_callback returns paContinue.
C10_OverflowAccounting ==
    /\ mic.m_dropped_frames =
          IF mic_call.op = "start" /\ mic_call.started THEN 0
          ELSE IF mic_call.op = "pa_callback" /\ mic_call.refused
               THEN mic_call.dropped_before + FramesOf(mic_call.chunk)
               ELSE mic_call.dropped_before
    /\ mic_call.op = "pa_callback" => mic_call.ret = "paContinue"
    /\ mic_call.refused => mic_call.completed
    /\ \A r \in 1..Len(mic_hist.refused) :
          /\ \A i \in 1..Len(mic.m_audio_queue) :
                mic.m_audio_queue[i] # mic_hist.refused[r]
          /\ \A i \in 1..Len(mic_hist.delivered) :
                mic_hist.delivered[i] # mic_hist.refused[r]

\* C10's case: the queue is full and refuses a second chunk in a row.
C10_Witness ==
    /\ mic_call.op = "pa_callback"
    /\ mic_call.refused
    /\ mic_call.dropped_before > 0
    /\ mic.m_dropped_frames = mic_call.dropped_before + FramesOf(mic_call.chunk)
    /\ Len(mic.m_audio_queue) = mic.queue_size

\* where the queue accepted a chunk, among the chunks it accepted
EnqueuedAt(chunk) ==
    CHOOSE k \in 1..Len(mic_hist.enqueued) : mic_hist.enqueued[k] = chunk

\* C11: the chunks handed to the registered callback are a subsequence of the
\* chunks the producer enqueued, in the same order.
C11_FifoDelivery ==
    /\ \A i \in 1..Len(mic_hist.handed) :
          \E k \in 1..Len(mic_hist.enqueued) :
              mic_hist.enqueued[k] = mic_hist.handed[i]
    /\ \A i, j \in 1..Len(mic_hist.handed) :
          i < j => EnqueuedAt(mic_hist.handed[i]) < EnqueuedAt(mic_hist.handed[j])

\* C11's case: two chunks have been handed to the callback, and the chunk
\* enqueued first was not one of them.
C11_Witness ==
    /\ Len(mic_hist.handed) >= 2
    /\ Len(mic_hist.enqueued) >= 3
    /\ mic_hist.handed[1] # mic_hist.enqueued[1]

\* a processing thread exists and has not left its loop
ConsumerAlive == mic.m_processing_thread \in {"check", "dequeue", "wait"}

\* C12: with a callback registered before start() and capture left running,
\* no chunk is handed to the callback twice, and every chunk the queue
\* accepted is eventually handed to it: the number of callback invocations
\* eventually equals the number of enqueued chunks.
C12_ExactlyOnce ==
    /\ [](/\ Len(mic_hist.handed) <= Len(mic_hist.enqueued)
          /\ \A i, j \in 1..Len(mic_hist.handed) :
                i # j => mic_hist.handed[i] # mic_hist.handed[j])
    /\ (ConsumerAlive /\ Len(mic_hist.handed) < Len(mic_hist.enqueued))
          ~> (Len(mic_hist.handed) = Len(mic_hist.enqueued))

\* C12's case: capture runs with a callback, and all of several enqueued
\* chunks have been handed to it.
C12_Witness ==
    /\ ConsumerAlive
    /\ mic.m_running
    /\ Len(mic_hist.enqueued) >= 2
    /\ mic_hist.handed = mic_hist.enqueued

\* the latest call was a stop() that has returned
StopReturned == mic_call.op = "stop" /\ mic_call.ret = "void"

\* C13: stop() eventually returns from every running state, and when it has
\* returned is_running() is false, the consumer thread has exited and the
\* queue is empty.
C13_StopTerminates ==
    /\ [](StopReturned =>
            /\ ~mic.m_running
            /\ ~mic.stopping
            /\ mic.m_processing_thread = "none"
            /\ mic.m_audio_queue = <<>>)
    /\ mic.stopping ~> StopReturned

\* C13's case: stop() has returned on a mic_capture that ran with a callback
\* and still held chunks no consumer had taken.
C13_Witness ==
    /\ StopReturned
    /\ mic_call.was_running
    /\ mic.m_callback
    /\ Len(mic_hist.enqueued) > Len(mic_hist.delivered)

\* C14, in the form a finite run refutes: once set_audio_callback has
\* installed a callback on a running mic_capture, a processing thread is
\* there to hand it the chunks accumulated afterwards.
C14_LateCallbackServed ==
    (/\ mic_call.op = "set_audio_callback"
     /\ mic_call.was_running
     /\ mic.m_callback)
        => ConsumerAlive

\* C15: start() on a running mic_capture returns true and changes nothing,
\* stop() on a stopped one is a no-op, and a start() that starts capture
\* (after a stop() as well) leaves it running with its stream open and its
\* consumer thread, if a callback is registered.
C15_StartStopIdempotent ==
    /\ (mic_call.op = "start" /\ mic_call.was_running) =>
          (mic_call.ret = "true" /\ mic_call.unchanged /\ ~mic_call.started)
    /\ (mic_call.op = "stop" /\ ~mic_call.was_running) =>
          (mic_call.ret = "void" /\ mic_call.unchanged)
    /\ (mic_call.op = "start" /\ mic_call.started) =>
          /\ mic.m_running /\ mic.m_stream
          /\ mic.m_dropped_frames = 0
          /\ mic.m_callback => ConsumerAlive

\* C15's case: start() is called on a running mic_capture that has dropped
\* frames.
C15_Witness ==
    /\ mic_call.op = "start"
    /\ mic_call.was_running
    /\ mic_call.ret = "true"
    /\ mic.m_dropped_frames > 0

-----------------------------------------------------------------------------
(* Claims about the vstream_engine, checked under SpecEng                  *)

\* the samples of a process_audio call that was made but has not yet
\* reached the statement that counts them
Uncounted(t) ==
    IF eng_thr[t].op = "process_audio" /\ eng_thr[t].pc \in {"lock", "locked"}
    THEN eng_thr[t].len
    ELSE 0

RECURSIVE SumUncounted(_)
SumUncounted(S) ==
    IF S = {} THEN 0
    ELSE LET t == CHOOSE x \in S : TRUE
         IN  Uncounted(t) + SumUncounted(S \ {t})

\* thread t takes a step of the operation op
Steps(t, op) == eng_thr[t].op = op /\ eng_thr'[t] # eng_thr[t]

\* C16: under any interleaving of process_audio, reset and configuration
\* calls from several threads, the engine's total_samples_processed equals
\* the sum of the lengths of the sample vectors submitted to process_audio
\* (those of calls still waiting to be counted excepted); it never
\* decreases, and neither reset() nor a call with empty samples changes it.
C16_SampleCounter ==
    /\ [](engine.m_total_samples
            = eng_hist.submitted - SumUncounted(EngThreads))
    /\ [][/\ engine'.m_total_samples >= engine.m_total_samples
          /\ \A t \in EngThreads :
               \/ Steps(t, "reset")
               \/ (Steps(t, "process_audio") /\ eng_thr[t].len = 0)
               => engine'.m_total_samples = engine.m_total_samples]_vars

\* C16's case: samples were counted, and reset() and a forced flush with
\* empty samples have returned on two threads after them.
C16_Witness ==
    /\ engine.m_total_samples > chunk_size
    /\ eng_hist.calls = MaxEngineCalls
    /\ \E t, u \in EngThreads :
         /\ eng_thr[t].op = "reset" /\ eng_thr[t].pc = "idle"
         /\ eng_thr[u].op = "process_audio" /\ eng_thr[u].pc = "idle"
         /\ eng_thr[u].len = 0 /\ eng_thr[u].is_final

\* thread t's latest process_audio call had audio and has passed the
\* bleed-avoidance check (it is feeding, returning, or has returned)
BeganFeeding(t) ==
    /\ eng_thr[t].op = "process_audio"
    /\ eng_thr[t].len > 0
    /\ eng_thr[t].pc \in {"feed", "return", "idle"}

\* the positions of vosk_recognizer_reset in the operations of t's call
ResetsOf(t) ==
    {i \in 1..Len(eng_thr[t].trace) : eng_thr[t].trace[i].op = "reset"}

\* C17: a process_audio call with non-empty audio resets the recognizer
\* before feeding its first sample if and only if a final was reported (a
\* complete utterance in mid-feed or a forced flush) since the last
\* non-empty call began feeding; the reset happens once and clears the
\* 'just got final' flag, which stays clear while the call feeds.
C17_BleedAvoidance ==
    \A t \in EngThreads :
        /\ BeganFeeding(t) =>
             /\ ResetsOf(t) = (IF eng_thr[t].final_before THEN {1} ELSE {})
        /\ eng_thr[t].pc = "feed" => ~engine.just_got_final

\* C17's case: a non-empty call that came after a forced flush made by the
\* other thread has reset the recognizer, fed its audio and returned.
C17_Witness ==
    \E t, u \in EngThreads :
        /\ t # u
        /\ eng_thr[u].op = "process_audio" /\ eng_thr[u].len = 0
        /\ eng_thr[u].ret = vosk_recognizer_final_result
        /\ BeganFeeding(t) /\ eng_thr[t].pc = "idle"
        /\ eng_thr[t].final_before
        /\ Len(eng_thr[t].trace) >= 3
        /\ eng_thr[t].trace[1].op = "reset"
        /\ eng_thr[t].trace[2].op = "accept_waveform"

\* thread t's latest call has computed its return value
Returned(t) == eng_thr[t].pc \in {"return", "idle"}

\* C18: every call process_audio(samples, is_final = true) returns the
\* recognizer's forced final result, whether samples is empty or not.
C18_ForcedFinal ==
    \A t \in EngThreads :
        (eng_thr[t].op = "process_audio" /\ eng_thr[t].is_final
           /\ Returned(t))
        => eng_thr[t].ret = vosk_recognizer_final_result

\* C19: under every interleaving of threads calling process_audio, reset,
\* set_grammar, set_max_alternatives, enable_nlsml_output and
\* has_partial_result on one engine, at most one thread is inside an
\* operation on the recognizer at any time (it is the owner of m_mutex), and
\* no operation on the recognizer ever ran between the first and the last
\* step of another thread's call: a whole process_audio call is atomic.
C19_MutualExclusion ==
    /\ Cardinality({t \in EngThreads : InCall(t)}) <= 1
    /\ \A t \in EngThreads : InCall(t) => engine.m_mutex = t
    /\ ~eng_hist.overlapped

\* C19's case: a thread is in the middle of feeding a process_audio call
\* that began with a reset while the other thread waits for the mutex with
\* a reset() call.
C19_Witness ==
    \E t, u \in EngThreads :
        /\ eng_thr[t].op = "process_audio" /\ eng_thr[t].pc = "feed"
        /\ eng_thr[t].processed > 0
        /\ ResetsOf(t) = {1}
        /\ eng_thr[u].op = "reset" /\ eng_thr[u].pc = "lock"

\* the sub-chunks thread t's call has fed, in the order it fed them
RECURSIVE FedBy(_)
FedBy(trace) ==
    IF trace = <<>> THEN <<>>
    ELSE IF Head(trace).op = "accept_waveform"
         THEN <<Head(trace).at>> \o FedBy(Tail(trace))
         ELSE FedBy(Tail(trace))

\* the sub-chunks for which t's call took a result of the given kind
TakenAt(t, kind) ==
    {eng_thr[t].trace[i].at :
        i \in {j \in 1..Len(eng_thr[t].trace) :
                 eng_thr[t].trace[j].op = kind}}

\* the number of sub-chunks of a sample vector of length len
SubChunks(len) == (len + chunk_size - 1) \div chunk_size

\* C20: a process_audio call with non-empty samples feeds the sub-chunks in
\* input order; if the recognizer reports a complete utterance on sub-chunk
\* k the call returns that final result, feeds no sub-chunk after k and
\* sets the 'just got final' flag; if no sub-chunk completes an utterance
\* the call feeds every sub-chunk and returns the most recent partial.
C20_MidFeedFinal ==
    \A t \in EngThreads :
        (BeganFeeding(t) /\ Returned(t)) =>
            LET fed == FedBy(eng_thr[t].trace)
                finals == TakenAt(t, "result")
                partials == TakenAt(t, "partial_result")
            IN  /\ \A i \in 1..Len(fed) : fed[i] = i
                /\ IF finals # {}
                   THEN /\ finals = {Len(fed)}
                        /\ eng_thr[t].ret = vosk_recognizer_result(Len(fed))
                        /\ eng_thr[t].pc = "return" => engine.just_got_final
                   ELSE /\ Len(fed) = SubChunks(eng_thr[t].len)
                        /\ eng_thr[t].ret.kind = "partial_result"
                        /\ \A k \in partials : k <= eng_thr[t].ret.at
                        /\ eng_thr[t].ret.at \in partials
-----------------------------------------------------------------------------
(* Claims about vstream_app, checked under SpecApp                         *)

\* C21: a stop request is never lost: once stop() has been called while
\* run() is under way (by a signal, by the 'stop' command or by another
\* thread), run() does not go round its main loop with m_running set, so
\* that it leaves the loop, stops benchmark, microphone and server and
\* returns 0.
C21_StopNeverLost ==
    (app_hist.stop_requested /\ app.pc \in {"loop", "sleep"})
        => ~app.m_running

\* C26: in the WebSocket audio callback, when two consecutive payloads of a
\* session yield engine results carrying the same text (the same partial
\* twice or the same final twice), the second payload broadcasts nothing.
C26_WsDuplicateSuppressed ==
    (app_call.op = "audio" /\ app_call.repeated) => app_call.sent = <<>>

\* C27: every text the WebSocket audio callback passes to the server's
\* broadcast is the text of a final result; a result that carries only a
\* "partial" causes no broadcast.
C27_WsOnlyFinals ==
    app_call.op = "audio" =>
        /\ \A i \in 1..Len(app_call.sent) : app_call.sent[i].type = "final"
        /\ (app_call.carried.type = "partial" => app_call.sent = <<>>)

\* the latest call was handle_websocket_command
Commanded == app_call.op = "command"

KnownCommands == Commands \ {"bogus"}

\* the command was refused: an unknown name, or set_grammar without a
\* "grammar" parameter
Refused ==
    /\ Commanded
    /\ \/ app_call.command \notin KnownCommands
       \/ app_call.command = "set_grammar" /\ ~app_call.has_grammar

\* what C28 says of the refused commands and of the running flag
RefusalsAreInert ==
    /\ (Commanded /\ app_call.command \notin KnownCommands)
           => app_call.status = "error"
              /\ app_call.message = "Unknown command"
    /\ Refused => /\ app_call.status = "error"
                  /\ app_call.engine = <<>>
                  /\ app_call.now_running = app_call.was_running
    /\ (Commanded /\ app_call.now_running # app_call.was_running)
           => app_call.command = "stop"
    /\ (Commanded /\ app_call.command = "stop") => ~app_call.now_running

\* C28 as stated: an unknown command answers status "error" with message
\* "Unknown command", set_grammar without a parameter answers status
\* "error", neither calls the engine nor changes the running flag; only
\* 'stop' clears the running flag, and only 'reset' and 'set_grammar' with a
\* parameter call the engine.
C28_Original ==
    /\ RefusalsAreInert
    /\ (Commanded /\ app_call.engine # <<>>)
           => \/ app_call.command = "reset"
              \/ app_call.command = "set_grammar" /\ app_call.has_grammar

\* C28: as above, except that the engine is called by three commands:
\* 'reset' calls reset(), 'set_grammar' with a parameter calls
\* set_grammar(), and 'stats' reads get_total_samples_processed(); every
\* other command makes no engine call.
C28_CommandErrorHandling ==
    /\ RefusalsAreInert
    /\ Commanded =>
           app_call.engine =
               CASE app_call.command = "reset" -> <<"reset">>
                 [] app_call.command = "set_grammar" /\ app_call.has_grammar
                        -> <<"set_grammar">>
                 [] app_call.command = "stats"
                        -> <<"get_total_samples_processed">>
                 [] OTHER -> <<>>

\* a set_grammar without parameter is refused while the application is
\* running and has handled audio
C28_Witness ==
    /\ Refused
    /\ app_call.was_running
    /\ app_call.command = "set_grammar"
    /\ app_call.message = "Missing grammar parameter"
    /\ app_hist.last["s1"] # NoPayload
-----------------------------------------------------------------------------
(* Claims about benchmark_manager, checked under SpecBench                 *)

\* C29: the segments are those inserted since the last start(), in the
\* order of their insertion and with the fields they were inserted with:
\* add_transcription only appends, and no operation, add_vad_decision
\* included, alters a segment already there.
C29_SegmentsImmutable == benchmark.m_segments = bench_hist.inserted

\* C30: start() empties the segments, the VAD decisions and the sample
\* total; before the first start() the object stays as constructed, and
\* from a stop() to the next start() the segments, the VAD decisions and
\* the sample total stay as stop() left them.
C30_RunLifecycle ==
    /\ bench_call.op = "start" =>
           /\ benchmark.m_segments = <<>>
           /\ benchmark.m_vad_decisions = <<>>
           /\ benchmark.m_total_samples = 0
    /\ ~bench_hist.started => benchmark = BenchConstructed
    /\ bench_hist.stopped =>
           /\ benchmark.m_segments = bench_hist.frozen.m_segments
           /\ benchmark.m_vad_decisions = bench_hist.frozen.m_vad_decisions
           /\ benchmark.m_total_samples = bench_hist.frozen.m_total_samples
-----------------------------------------------------------------------------
(* Further claims about the audio_processor, checked under SpecAPNoted     *)

\* C34 as stated: with partial display on, a result whose "partial" is
\* non-null, non-empty and other than last_partial_text, and whose "text"
\* is absent, null, empty or equal to last_final_text, has its partial
\* remembered in last_partial_text and shown.
C34_Original == ap_call.partial_case # "none" => ap_call.partial_taken

\* C34: such a result has its partial remembered and shown when it has no
\* non-null "text" member; when it has one, even an empty one or
\* last_final_text again, the partial is neither remembered nor shown.
C34_PartialDispatch ==
    /\ ap_call.partial_case = "bare" => ap_call.partial_taken
    /\ ap_call.partial_case = "shadowed" => ~ap_call.partial_taken

\* a partial is shown for a result without "text", after a final "a" was
\* broadcast
C34_Witness ==
    /\ ap_call.partial_case = "bare"
    /\ ap_call.partial_taken
    /\ ap.m_last_final_text = "a"
    /\ ap.m_last_partial_text = "a"

\* C35: after a call that ran force_finalize the cache m_last_final_text is
\* empty.
C35_FinalCacheCleared == ap_call.finalizes >= 1 => ap.m_last_final_text = ""

\* C37: with VAD enabled, a call of process_audio makes exactly one call of
\* m_vad->process.
C37_OneVadCallPerChunk ==
    (ap_call.op = "process_audio" /\ ap.m_use_vad) => ap_call.vad_calls = 1
-----------------------------------------------------------------------------
(* Claims about mic_capture across stop() and start(), checked under       *)
(* SpecMicSession                                                          *)

\* the samples of a sequence of chunks
RECURSIVE SamplesIn(_)
SamplesIn(chunks) ==
    IF chunks = <<>> THEN 0 ELSE Len(Head(chunks)) + SamplesIn(Tail(chunks))

\* the chunks of a log that the queue accepted since the latest start():
\* those that hold a sample produced since then
RECURSIVE SinceStart(_)
SinceStart(chunks) ==
    IF chunks = <<>> THEN <<>>
    ELSE IF Head(chunks)[Len(Head(chunks))] > mic_hist.started_at
         THEN <<Head(chunks)>> \o SinceStart(Tail(chunks))
         ELSE SinceStart(Tail(chunks))

\* between a start() and the following stop()
Capturing == mic.m_running /\ ~mic.stopping

\* C39: while capturing, the frames handed to pa_callback since the latest
\* start() are the frames in the accumulation buffer, in the chunks in the
\* queue and in the chunks dequeued since that start(), and the frames
\* counted in m_dropped_frames (counted here in samples, channels per
\* frame).  stop() empties the queue, so the chunks in the queue and the
\* chunks dequeued are together the chunks the queue accepted since that
\* start().
C39_FrameConservation ==
    Capturing =>
        mic_hist.samples - mic_hist.started_at
            = Len(mic.m_accumulation_buffer)
              + SamplesIn(SinceStart(mic_hist.enqueued))
              + mic.m_dropped_frames * mic.channels

\* C40: a start() that follows a stop() leaves the accumulation buffer and
\* the accumulated-frame counter empty, and a chunk completed after it holds
\* only samples produced since that start().
C40_CleanRestart ==
    /\ (mic_call.op = "start" /\ mic_call.started)
           => /\ mic.m_accumulation_buffer = <<>>
              /\ mic.m_accumulated_frames = 0
    /\ (mic_call.op = "pa_callback" /\ mic_call.completed)
           => \A i \in 1..Len(mic_call.chunk) :
                  mic_call.chunk[i] > mic_hist.started_at

-----------------------------------------------------------------------------
(* Claims about the benchmark's threads, checked under SpecBench, and     *)
(* about a benchmark run in time, checked under SpecBenchTimed             *)

\* C31: at most one thread at a time is in the part of add_transcription
\* that appends to the segment sequence, and no thread is reading the
\* sequence in get_current_results while another thread is appending.
C31_SingleWriter ==
    /\ Pending("append") <= 1
    /\ ~(Pending("read") >= 1 /\ Pending("append") >= 1)

\* C36: the results stop() returns for a run that processed samples and
\* took time have real_time_factor = total_processing_time_ms /
\* total_audio_duration_ms, a positive value.
C36_FinishedRunRtf ==
    LET res == bench_call.results
    IN  (/\ bench_call.op = "stop"
         /\ res.total_samples_processed > 0
         /\ res.total_processing_time_ms > 0)
        => /\ res.real_time_factor.num * res.total_audio_duration_ms
                  = res.total_processing_time_ms * res.real_time_factor.den
           /\ res.real_time_factor.num > 0

-----------------------------------------------------------------------------
(* Claims about the engine shared by force_finalize and the WebSocket      *)
(* handler, checked under SpecEngShared                                    *)

\* thread t has returned from force_finalize's flush and has not yet taken
\* the mutex for its reset()
BetweenFlushAndReset(t) ==
    \/ eng_thr[t].caller = "flush" /\ eng_thr[t].pc = "idle"
    \/ eng_thr[t].caller = "reset" /\ eng_thr[t].pc = "lock"

\* C38: while a thread is between the flush of force_finalize
\* (process_audio({}, true)) and its engine reset(), no other thread
\* executes process_audio on the engine.
C38_FinalizeAtomic ==
    \A t \in EngThreads :
        BetweenFlushAndReset(t)
        => ~\E u \in EngThreads \ {t} :
               InCall(u) /\ eng_thr[u].op = "process_audio"

-----------------------------------------------------------------------------
(* Claims about calculate_wer, checked under SpecWer                       *)

\* the call of calculate_wer has returned
WerDone == wer_call.pc = "done"

\* the value returned equals the number v
WerIs(v) == wer_call.out.wer.num = v * wer_call.out.wer.den

\* the text holds a character that survives tokenize: it has a word
HasWord(text) == \E i \in 1..Len(text) : isalnum(text[i])

\* C32 as stated: calculate_wer(ref, ref) = 0, calculate_wer(ref, "") =
\* 100 whenever ref is a non-empty string, calculate_wer("", "") = 0.
C32_Original ==
    WerDone =>
        /\ wer_call.reference = wer_call.hypothesis => WerIs(0)
        /\ (wer_call.hypothesis = <<>> /\ wer_call.reference # <<>>)
               => WerIs(100)

\* C32: calculate_wer(ref, ref) = 0 for every text; calculate_wer(ref, "")
\* = 100 whenever ref holds at least one word, and 0 when it holds none
\* (so calculate_wer("", "") = 0).
C32_WerIdentities ==
    WerDone =>
        /\ wer_call.reference = wer_call.hypothesis => WerIs(0)
        /\ (wer_call.hypothesis = <<>> /\ HasWord(wer_call.reference))
               => WerIs(100)
        /\ (wer_call.hypothesis = <<>> /\ ~HasWord(wer_call.reference))
               => WerIs(0)

\* "a B", a reference of two words, was compared with "" and gave 100
C32_Witness ==
    /\ WerDone
    /\ wer_call.hypothesis = <<>>
    /\ wer_call.reference = <<"a", " ", "B">>
    /\ wer_call.out.ref_words = <<<<"a">>, <<"b">>>>
    /\ WerIs(100)

\* the unit-cost Levenshtein distance of two token sequences
RECURSIVE Levenshtein(_, _)
Levenshtein(a, b) ==
    IF a = <<>> THEN Len(b)
    ELSE IF b = <<>> THEN Len(a)
    ELSE LET fa == SubSeq(a, 1, Len(a) - 1)
             fb == SubSeq(b, 1, Len(b) - 1)
         IN  Min3(Levenshtein(fa, b) + 1, Levenshtein(a, fb) + 1,
                  Levenshtein(fa, fb)
                      + IF a[Len(a)] = b[Len(b)] THEN 0 ELSE 1)

\* the distance of the first i reference words and the first j
\* hypothesis words
PrefixDistance(i, j) ==
    Levenshtein(SubSeq(wer_call.out.ref_words, 1, i),
                SubSeq(wer_call.out.hyp_words, 1, j))

\* at a step on unequal words the backtrack counts a substitution if that
\* is cheapest, else a deletion if that is cheapest, else an insertion
TieRule(step) ==
    LET i == step.i
        j == step.j
        least == Min3(PrefixDistance(i - 1, j - 1), PrefixDistance(i - 1, j),
                      PrefixDistance(i, j - 1))
    IN  (/\ i > 0
         /\ j > 0
         /\ wer_call.out.ref_words[i] # wer_call.out.hyp_words[j])
        => step.op = IF PrefixDistance(i - 1, j - 1) = least THEN "sub"
                     ELSE IF PrefixDistance(i - 1, j) = least THEN "del"
                     ELSE "ins"

\* C33: with a reference of at least one token calculate_wer returns
\* 100 * d / |ref_tokens|, d the unit-cost token Levenshtein distance; the
\* counts of substitutions, deletions and insertions are non-negative, sum
\* to d, satisfy deletions - insertions = |ref_tokens| - |hyp_tokens|, and
\* come from a backtrack that prefers substitution to deletion to
\* insertion on ties; "the quick brown fox" against "the quik brown dog"
\* gives (2, 0, 0) and 50.
C33_OperationCounts ==
    LET out == wer_call.out
        d == Levenshtein(out.ref_words, out.hyp_words)
    IN  (WerDone /\ out.ref_words # <<>>) =>
            /\ out.written
            /\ out.distance = d
            /\ out.wer.num = 100 * d
            /\ out.wer.den = Len(out.ref_words)
            /\ out.substitutions >= 0
            /\ out.deletions >= 0
            /\ out.insertions >= 0
            /\ out.substitutions + out.deletions + out.insertions = d
            /\ out.deletions - out.insertions
                   = Len(out.ref_words) - Len(out.hyp_words)
            /\ \A k \in 1..Len(out.path) : TieRule(out.path[k])
            /\ (/\ wer_call.reference = ExampleReference
                /\ wer_call.hypothesis = ExampleHypothesis)
                   => /\ out.substitutions = 2
                      /\ out.deletions = 0
                      /\ out.insertions = 0
                      /\ WerIs(50)

\* "a b" against "b a": two substitutions cost as much as a deletion and
\* an insertion, and the backtrack counted the substitutions
C33_Witness ==
    /\ WerDone
    /\ wer_call.out.ref_words = <<<<"a">>, <<"b">>>>
    /\ wer_call.out.hyp_words = <<<<"b">>, <<"a">>>>
    /\ PrefixDistance(1, 2) = PrefixDistance(1, 1)
    /\ wer_call.out.substitutions = 2
    /\ wer_call.out.deletions = 0
    /\ WerIs(100)
=============================================================================
